---------------------------- MODULE Spec2Model ----------------------------
(***************************************************************************)
(* A model of the DrSui commitment / proof / attestation utilities         *)
(* (src/backend/zk_utils.py).                                              *)
(*                                                                         *)
(* Conventions.                                                            *)
(*  - A Python str is a sequence of symbols.  A symbol is a one-character  *)
(*    string, or a whole word standing for its characters (literals of    *)
(*    the program such as "zk_medical_analysis" are one word).  Strings   *)
(*    the program computes character by character (hex, base58, decimal)  *)
(*    are sequences of one-character symbols.                             *)
(*  - A Python bytes object is a sequence of naturals; str.encode maps    *)
(*    every symbol to its code (ASCII for one-character symbols, a code   *)
(*    above 255 for a word).                                              *)
(*  - The hash functions are replaced by a small polynomial digest that   *)
(*    is collision-free on the inputs the model reaches; it is padded to  *)
(*    the real digest width so that lengths and encodings are the real    *)
(*    ones.                                                               *)
(*  - secrets.token_bytes / token_hex are idealised as never repeating a  *)
(*    value: the k-th draw of a run returns the value k.                  *)
(***************************************************************************)
EXTENDS Integers, Sequences, FiniteSets, TLC

\* ------------------------------------------------------------------ bounds
MaxCommits    == 2      \* generate_image_commitment calls in one run
MaxTime       == 2      \* largest value of the clock int(time.time())

MaxProofs     == 2      \* generate_analysis_proof calls in one run
OrderBytes    == 5      \* bytes of one signature component (32 for P-256,
                        \* scaled down; at least 5)

MaxLog        == 3      \* verify_proof calls recorded in one run
MaxGenerators == 1      \* instances constructed in one run (where they are)
MaxChanges    == 2      \* fields outside the signed part altered at a time
StorageCap    == 2      \* records kept in analyses_storage (100 in main.py,
                        \* scaled down)
MaxUploads    == 2      \* /analyze requests in one run, where every path of
                        \* the handler is taken

\* ------------------------------------------------------- program constants
DigestSize == 32        \* SHA3-256 and SHA-256 digests are 32 bytes
SaltSize   == 16        \* secrets.token_bytes(16)
TimeSize   == 8         \* timestamp.to_bytes(8, 'big')
NonceSize  == 16        \* secrets.token_hex(16)

VARIABLES
    now,        \* int(time.time()): the clock, never decreasing
    drawn,      \* number of values drawn from the secrets module so far
    commits,    \* log of generate_image_commitment calls (ghost: the code
                \* returns the commitment and discards ts and salt)
    issued,     \* log of generate_analysis_proof calls: arguments and result
    held,       \* the proof value in the caller's hands (any Python value)
    verdict,    \* the verify_proof call made on it, once made
    chain,      \* the bytes of a proof stored on the blockchain, once stored
    generators, \* the ZKProofGenerator instances: model id, key pair, metadata
    log,        \* the verify_proof calls made so far, where they are recorded
    environ,    \* os.environ: the value of DRSUI_ZK_PRIVATE_KEY (None: unset)
    DEMO_MODE,  \* main.py: the demo mode switch read at start-up
    client,     \* main.py: TRUE when an AtomaSDK client is configured
    analyses_storage,   \* main.py: the list of stored analysis records
    response    \* the response to the latest HTTP request

apiVars == <<DEMO_MODE, client, analyses_storage, response>>

vars == <<now, drawn, commits, issued, held, verdict, chain, generators, log, environ,
          DEMO_MODE, client, analyses_storage, response>>

proofVars == <<issued, held, verdict, chain, generators, log, environ, apiVars>>

\* ------------------------------------------------------------ sequences
\* int.to_bytes(length, 'big'), for 0 <= n < 2^31 (the integers of the model):
\* byte i counts 256^(length - i), and every byte above the fourth is zero.
ToBytes(n, length) ==
    [i \in 1..length |->
        IF length - i > 3 THEN 0 ELSE (n \div (256 ^ (length - i))) % 256]

\* ------------------------------------------------------------ hashing
\* The running value of the stand-in digest over data[lo..hi]: a polynomial in
\* the input's codes, acc * 389^k + ... taken modulo a prime.  The range is
\* halved (and the left half's value tested, which makes TLC compute it first)
\* only to keep the evaluation shallow; the value is that of the left-to-right
\* fold acc := (acc * 389 + code + 1) % 4194301.
RECURSIVE DigestFold(_, _, _, _)
DigestFold(acc, data, lo, hi) ==
    IF lo > hi THEN acc
    ELSE IF lo = hi THEN (acc * 389 + data[lo] + 1) % 4194301
    ELSE LET mid  == (lo + hi) \div 2
             left == DigestFold(acc, data, lo, mid)
         IN  IF left >= 0 THEN DigestFold(left, data, mid + 1, hi) ELSE left

\* SHA3_256.new(data).digest()
SHA3_256(data) == ToBytes(DigestFold(3, data, 1, Len(data)), DigestSize)

\* SHA256.new(data).digest()
SHA256(data) == ToBytes(DigestFold(2, data, 1, Len(data)), DigestSize)

HexDigits == <<"0", "1", "2", "3", "4", "5", "6", "7",
               "8", "9", "a", "b", "c", "d", "e", "f">>

\* A hex conversion that prints the digits above nine in upper case.
HexUpper(bytes) ==
    LET digits == <<"0", "1", "2", "3", "4", "5", "6", "7",
                    "8", "9", "A", "B", "C", "D", "E", "F">>
    IN  [j \in 1..(2 * Len(bytes)) |->
            LET b == bytes[(j + 1) \div 2]
            IN  IF j % 2 = 1 THEN digits[(b \div 16) + 1] ELSE digits[(b % 16) + 1]]

\* bytes.hex(): two lowercase hexadecimal digits per byte.
Hex(bytes) ==
    [j \in 1..(2 * Len(bytes)) |->
        LET b == bytes[(j + 1) \div 2]
        IN  IF j % 2 = 1 THEN HexDigits[(b \div 16) + 1] ELSE HexDigits[(b % 16) + 1]]

\* ------------------------------------------------------------ Python values
\* A Python value is a tagged record: a str (s: its symbols), an int (n), None,
\* a bool (n: 0 or 1), a bytes object (only b"" occurs: a value json cannot
\* serialise), a float (only nan, inf and -inf occur; s: the name json gives
\* it), or a dict
\* (items: its key/value pairs in insertion order, the keys distinct).
Str(symbols) == [py |-> "str", s |-> symbols, n |-> 0]
PyInt(i)     == [py |-> "int", s |-> <<>>, n |-> i]
PyBool(b)    == [py |-> "bool", s |-> <<>>, n |-> IF b THEN 1 ELSE 0]
None         == [py |-> "None", s |-> <<>>, n |-> 0]
EmptyBytes   == [py |-> "bytes", s |-> <<>>, n |-> 0]
PyFloat(name) == [py |-> "float", s |-> <<name>>, n |-> 0]
Dict(items)  == [py |-> "dict", items |-> items]
Item(key, value) == [k |-> key, v |-> value]

IsDict(x) == x.py = "dict"

Keys(d) == {d.items[i].k : i \in 1..Len(d.items)}

\* bool(x), as in "if not x" / "if x".
Truthy(x) ==
    CASE x.py = "str"   -> x.s # <<>>
      [] x.py = "int"   -> x.n # 0
      [] x.py = "bool"  -> x.n # 0
      [] x.py = "None"  -> FALSE
      [] x.py = "bytes" -> x.s # <<>>
      [] x.py = "float" -> TRUE
      [] x.py = "dict"  -> x.items # <<>>

\* d.get(key): the value stored under key, None when there is none.
Get(d, key) ==
    IF key \in Keys(d)
    THEN d.items[CHOOSE i \in 1..Len(d.items) : d.items[i].k = key].v
    ELSE None

\* d[key] = value (also d.update({key: value}), and the effect of a later
\* "key": value in a dict display): an existing key keeps its place.
SetItem(d, key, value) ==
    IF key \in Keys(d)
    THEN Dict([i \in 1..Len(d.items) |->
                 IF d.items[i].k = key THEN Item(key, value) ELSE d.items[i]])
    ELSE Dict(Append(d.items, Item(key, value)))

\* del d[key]
DelItem(d, key) == Dict(SelectSeq(d.items, LAMBDA it : it.k # key))

\* a == b for Python values: dicts compare as key/value maps, whatever the
\* insertion order (the dicts of the model nest at most three deep).
PyEq0(a, b) == a = b
PyEq1(a, b) ==
    IF IsDict(a) /\ IsDict(b)
    THEN /\ Keys(a) = Keys(b)
         /\ \A key \in Keys(a) : PyEq0(Get(a, key), Get(b, key))
    ELSE a = b
PyEq2(a, b) ==
    IF IsDict(a) /\ IsDict(b)
    THEN /\ Keys(a) = Keys(b)
         /\ \A key \in Keys(a) : PyEq1(Get(a, key), Get(b, key))
    ELSE a = b
PyEq(a, b) ==
    IF IsDict(a) /\ IsDict(b)
    THEN /\ Keys(a) = Keys(b)
         /\ \A key \in Keys(a) : PyEq2(Get(a, key), Get(b, key))
    ELSE a = b

\* ------------------------------------------------------------ text and bytes
\* The printable ASCII characters, from code 32 (space) to code 126 (~); the
\* grave accent (code 96), which no string of the model holds, is spelled out.
Ascii ==
    <<" ", "!", "\"", "#", "$", "%", "&", "'", "(", ")", "*", "+", ",", "-", ".", "/",
      "0", "1", "2", "3", "4", "5", "6", "7", "8", "9", ":", ";", "<", "=", ">", "?",
      "@", "A", "B", "C", "D", "E", "F", "G", "H", "I", "J", "K", "L", "M", "N", "O",
      "P", "Q", "R", "S", "T", "U", "V", "W", "X", "Y", "Z", "[", "\\", "]", "^", "_",
      "grave", "a", "b", "c", "d", "e", "f", "g", "h", "i", "j", "k", "l", "m", "n", "o",
      "p", "q", "r", "s", "t", "u", "v", "w", "x", "y", "z", "{", "|", "}", "~">>

AsciiChars == {Ascii[i] : i \in 1..Len(Ascii)}

\* The words of the model (dict keys and literals), in the order in which
\* Python sorts them (by code point: digits < upper case < "_" < lower case).
Words ==
    <<"-Infinity", "-enclave-v1", "1.0", "Abnormal - Findings Detected",
      "DrSui-ZK-Proof-System", "Failed to parse AI response", "Infinity",
      "Internal Server Error", "Invalid DICOM file", "MEDIUM", "NORMAL", "NaN",
      "Normal", "Only DICOM files are supported", "Post-Operative",
      "Proof is required in request body", "UNREADABLE", "Unreadable",
      "ZK proof system not initialized", "analysis_hash", "anonymous",
      "atoma-secure-enclave", "atoma-tee-", "atoma-tee-service",
      "atoma_model_id", "attestation_provider", "attestation_signature",
      "attestation_timestamp", "attestation_version", "attested",
      "blockchain_proof_bytes", "code_integrity", "commitment_valid",
      "computation_environment", "demo_mode", "enclave_id",
      "enclave_measurement", "error", "error_type", "false", "generator",
      "hash", "image_commitment", "memory_encryption", "message", "metadata",
      "model-v1", "model-v2", "model_id", "nonce", "null",
      "proof_structure_valid", "proof_type", "public_key",
      "remote_attestation", "secure_boot", "security_properties", "severity",
      "signature", "signature_valid", "simulated-for-development", "status",
      "tampered", "tee_attestation", "tee_type", "timestamp", "true",
      "trusted_execution_environment", "valid", "verification_details",
      "version", "wrong_commitment_hash", "zk_medical_analysis",
      "zk_medical_analysis_tee", "zk_proof", "zk_timestamp">>

\* Position of x in the sequence seq (x occurs in it).
IndexOf(seq, x) == CHOOSE i \in 1..Len(seq) : seq[i] = x

\* ord(): the code of a symbol; a word gets a code of its own above 255.
OrdTable ==
    [sym \in AsciiChars \cup {Words[i] : i \in 1..Len(Words)} |->
        IF sym \in AsciiChars THEN 31 + IndexOf(Ascii, sym)
        ELSE 255 + IndexOf(Words, sym)]

Ord(sym) == OrdTable[sym]

\* str.encode('utf-8')
EncodeUtf8(text) == [i \in 1..Len(text) |-> Ord(text[i])] \o <<>>

\* chr(): the symbol of a code (codes 0..31 and 127 are control characters).
Chr(code) ==
    IF code >= 32 /\ code <= 126 THEN Ascii[code - 31]
    ELSE IF code <= 31 THEN "control"
    ELSE IF code = 127 THEN "delete"
    ELSE Words[code - 255]

\* bytes.decode('utf-8') succeeds: every byte is ASCII or the code of a word.
\* A byte in 128..255 is taken to break the decoding (the bytes the model
\* decodes come out of base58 or of a damaged document, never out of
\* well-formed multi-byte text).
DecodableUtf8(bytes) ==
    \A i \in 1..Len(bytes) :
        \/ bytes[i] >= 0 /\ bytes[i] <= 127
        \/ bytes[i] >= 256 /\ bytes[i] <= 255 + Len(Words)

\* bytes.decode('utf-8') of decodable bytes.
DecodeUtf8(bytes) == [i \in 1..Len(bytes) |-> Chr(bytes[i])] \o <<>>

\* "".join(parts[lo..hi]); the range is halved to keep the evaluation shallow.
RECURSIVE ConcatRange(_, _, _)
ConcatRange(parts, lo, hi) ==
    IF lo > hi THEN <<>>
    ELSE IF lo = hi THEN parts[lo]
    ELSE LET mid == (lo + hi) \div 2
         IN  ConcatRange(parts, lo, mid) \o ConcatRange(parts, mid + 1, hi)

\* "".join(parts)
Concat(parts) == ConcatRange(parts, 1, Len(parts))

Digits == <<"0", "1", "2", "3", "4", "5", "6", "7", "8", "9">>
DigitChars == {Digits[i] : i \in 1..10}

\* str(n) for an int n >= 0.
RECURSIVE ToDecimal(_)
ToDecimal(n) ==
    IF n < 10 THEN <<Digits[n + 1]>>
    ELSE Append(ToDecimal(n \div 10), Digits[(n % 10) + 1])

\* int(text) for a non-empty sequence of decimal digits.
RECURSIVE FromDecimal(_)
FromDecimal(text) ==
    IF Len(text) = 1 THEN IndexOf(Digits, text[1]) - 1
    ELSE FromDecimal(SubSeq(text, 1, Len(text) - 1)) * 10
            + (IndexOf(Digits, text[Len(text)]) - 1)

\* ------------------------------------------------------------ json.dumps
Range(seq) == {seq[i] : i \in 1..Len(seq)}

\* sorted(d.items()): the items by increasing key (Words lists the keys in
\* Python's string order).
SortItems(items) ==
    LET present == {items[i].k : i \in 1..Len(items)}
        keys    == SelectSeq(Words, LAMBDA w : w \in present)
    IN  [i \in 1..Len(keys) |->
            items[CHOOSE j \in 1..Len(items) : items[j].k = keys[i]]] \o <<>>

\* The items in insertion order (what json.dumps does without sort_keys).
InsertionOrder(items) == items

\* The order in which json.dumps(obj, sort_keys=True) writes a dict's items.
DumpOrder(items) == SortItems(items)

\* The characters of a string literal: a backslash before each quote and
\* each backslash.
EscapeJson(symbols) ==
    IF \A i \in 1..Len(symbols) : symbols[i] \notin {"\"", "\\"} THEN symbols
    ELSE Concat([i \in 1..Len(symbols) |->
              IF symbols[i] \in {"\"", "\\"} THEN <<"\\", symbols[i]>>
              ELSE <<symbols[i]>>])

\* json.dumps(x, sort_keys=True): [ok |-> the value is serialisable,
\* text |-> the document].  A bytes value (anywhere inside x) raises TypeError.
RECURSIVE Dumps(_)
Dumps(x) ==
    CASE x.py = "str"   -> [ok |-> TRUE, text |-> <<"\"">> \o EscapeJson(x.s) \o <<"\"">>]
      [] x.py = "int"   -> [ok |-> TRUE,
                            text |-> IF x.n < 0 THEN <<"-">> \o ToDecimal(0 - x.n)
                                     ELSE ToDecimal(x.n)]
      [] x.py = "bool"  -> [ok |-> TRUE, text |-> IF x.n = 1 THEN <<"true">> ELSE <<"false">>]
      [] x.py = "None"  -> [ok |-> TRUE, text |-> <<"null">>]
      [] x.py = "bytes" -> [ok |-> FALSE, text |-> <<>>]
      [] x.py = "float" -> [ok |-> TRUE, text |-> x.s]
      [] x.py = "dict"  ->
            LET its   == DumpOrder(x.items)
                parts == [i \in 1..Len(its) |-> Dumps(its[i].v)]
            IN  IF \E i \in 1..Len(its) : ~parts[i].ok
                THEN [ok |-> FALSE, text |-> <<>>]
                ELSE [ok |-> TRUE,
                      text |-> <<"{">>
                        \o Concat([i \in 1..Len(its) |->
                              (IF i > 1 THEN <<",", " ">> ELSE <<>>)
                                \o <<"\"", its[i].k, "\"", ":", " ">>
                                \o parts[i].text])
                        \o <<"}">>]

\* ------------------------------------------------------------ json.loads
\* A parse step: [ok |-> it succeeded, v |-> the value read, next |-> the index
\* after it].
ParseFail == [ok |-> FALSE, v |-> None, next |-> 0]

\* The first index from i on that holds no space (Len(text) + 1 when none).
SkipSpace(text, i) ==
    IF \E j \in i..Len(text) : text[j] # " "
    THEN CHOOSE j \in i..Len(text) :
            text[j] # " " /\ \A m \in i..(j - 1) : text[m] = " "
    ELSE Len(text) + 1

\* The number of backslashes right before index j, not looking below index
\* from (which holds no backslash).
BackslashRun(text, from, j) ==
    LET m == CHOOSE m \in from..(j - 1) :
                text[m] # "\\" /\ \A x \in (m + 1)..(j - 1) : text[x] = "\\"
    IN  j - 1 - m

\* Index j holds the quote that closes the string opened at index i.
ClosesString(text, i, j) ==
    text[j] = "\"" /\ BackslashRun(text, i, j) % 2 = 0

\* The characters an escape sequence may name, and what it stands for (the
\* control characters are one symbol; \u sequences do not occur in the model).
Unescaped(sym) ==
    IF sym \in {"\"", "\\", "/"} THEN sym ELSE "control"

EscapeNames == {"\"", "\\", "/", "b", "f", "n", "r", "t"}

\* The string literal that opens at index i (text[i] is a quote).
ParseString(text, i) ==
    IF ~\E j \in (i + 1)..Len(text) : ClosesString(text, i, j) THEN ParseFail
    ELSE
    LET j == CHOOSE j \in (i + 1)..Len(text) :
                /\ ClosesString(text, i, j)
                /\ \A m \in (i + 1)..(j - 1) : ~ClosesString(text, i, m)
        \* an index that holds the backslash introducing an escape sequence
        intro(m) == text[m] = "\\" /\ BackslashRun(text, i, m) % 2 = 0
        kept  == {m \in (i + 1)..(j - 1) : ~intro(m)}
        nth(n) == CHOOSE m \in kept : Cardinality({x \in kept : x < m}) = n - 1
    IN  IF \E m \in (i + 1)..(j - 1) : text[m] = "control" THEN ParseFail
        ELSE IF \A m \in (i + 1)..(j - 1) : text[m] # "\\"
        THEN [ok |-> TRUE, v |-> Str(SubSeq(text, i + 1, j - 1)), next |-> j + 1]
        ELSE IF \E m \in (i + 1)..(j - 1) : intro(m) /\ text[m + 1] \notin EscapeNames
        THEN ParseFail
        ELSE [ok |-> TRUE,
              v |-> Str([n \in 1..Cardinality(kept) |->
                            IF nth(n) > i + 1 /\ intro(nth(n) - 1)
                            THEN Unescaped(text[nth(n)]) ELSE text[nth(n)]] \o <<>>),
              next |-> j + 1]

\* The integer literal that starts at index i (a digit or a minus sign);
\* fractions and exponents do not occur in the model.
ParseInt(text, i) ==
    LET start == IF text[i] = "-" THEN i + 1 ELSE i
        stop  == IF \E e \in start..Len(text) : text[e] \notin DigitChars
                 THEN CHOOSE e \in start..Len(text) :
                        /\ text[e] \notin DigitChars
                        /\ \A m \in start..(e - 1) : text[m] \in DigitChars
                 ELSE Len(text) + 1
        run   == SubSeq(text, start, stop - 1)
    IN  IF run = <<>> \/ (Len(run) > 1 /\ run[1] = "0")
           \/ (stop <= Len(text) /\ text[stop] \in {".", "e", "E"})
        THEN ParseFail
        ELSE [ok |-> TRUE,
              v |-> PyInt(IF start > i THEN 0 - FromDecimal(run) ELSE FromDecimal(run)),
              next |-> stop]

\* The constants json.loads reads besides null, true and false (its default
\* parse_constant): they give float('nan'), float('inf') and float('-inf').
NonFinite == {"NaN", "Infinity", "-Infinity"}

\* The value that starts at index i, and the items of an object from index i
\* on (a key is expected there), added to the dict acc.  A key read twice
\* keeps its place and takes the later value.  Keys are single words.
\* Arrays, fractions and exponents do not occur in the model.
RECURSIVE ParseValue(_, _), ParseItems(_, _, _)
ParseValue(text, i) ==
    IF i > Len(text) THEN ParseFail
    ELSE CASE text[i] = "\""   -> ParseString(text, i)
           [] text[i] = "null"  -> [ok |-> TRUE, v |-> None, next |-> i + 1]
           [] text[i] = "true"  -> [ok |-> TRUE, v |-> PyBool(TRUE), next |-> i + 1]
           [] text[i] = "false" -> [ok |-> TRUE, v |-> PyBool(FALSE), next |-> i + 1]
           [] text[i] \in NonFinite ->
                [ok |-> TRUE, v |-> PyFloat(text[i]), next |-> i + 1]
           [] text[i] \in DigitChars \cup {"-"} -> ParseInt(text, i)
           [] text[i] = "{" ->
                LET j == SkipSpace(text, i + 1)
                IN  IF j <= Len(text) /\ text[j] = "}"
                    THEN [ok |-> TRUE, v |-> Dict(<<>>), next |-> j + 1]
                    ELSE ParseItems(text, j, Dict(<<>>))
           [] OTHER -> ParseFail

ParseItems(text, i, acc) ==
    IF i > Len(text) \/ text[i] # "\"" THEN ParseFail
    ELSE
    LET key   == ParseString(text, i)
        colon == SkipSpace(text, key.next)
        val   == ParseValue(text, SkipSpace(text, colon + 1))
        end   == SkipSpace(text, val.next)
    IN  IF ~key.ok \/ Len(key.v.s) # 1 THEN ParseFail
        ELSE IF colon > Len(text) \/ text[colon] # ":" THEN ParseFail
        ELSE IF ~val.ok \/ end > Len(text) THEN ParseFail
        ELSE IF text[end] = "}"
        THEN [ok |-> TRUE, v |-> SetItem(acc, key.v.s[1], val.v), next |-> end + 1]
        ELSE IF text[end] = ","
        THEN ParseItems(text, SkipSpace(text, end + 1),
                        SetItem(acc, key.v.s[1], val.v))
        ELSE ParseFail

\* json.loads(text): [ok |-> the text is one JSON document (otherwise
\* JSONDecodeError is raised), v |-> its value].
Loads(text) ==
    LET doc == ParseValue(text, SkipSpace(text, 1))
    IN  IF doc.ok /\ SkipSpace(text, doc.next) = Len(text) + 1
        THEN [ok |-> TRUE, v |-> doc.v]
        ELSE [ok |-> FALSE, v |-> None]

\* The value x holds a float that is not a number of JSON (the values of the
\* model nest at most three deep).
HasNonFinite(x) ==
    \/ x.py = "float"
    \/ /\ IsDict(x)
       /\ \E a \in Keys(x) :
            \/ Get(x, a).py = "float"
            \/ /\ IsDict(Get(x, a))
               /\ \E b \in Keys(Get(x, a)) : Get(Get(x, a), b).py = "float"

\* ------------------------------------------------------------ base58
B58Alphabet ==
    <<"1", "2", "3", "4", "5", "6", "7", "8", "9",
      "A", "B", "C", "D", "E", "F", "G", "H", "J", "K", "L", "M", "N", "P", "Q",
      "R", "S", "T", "U", "V", "W", "X", "Y", "Z",
      "a", "b", "c", "d", "e", "f", "g", "h", "i", "j", "k", "m", "n", "o", "p",
      "q", "r", "s", "t", "u", "v", "w", "x", "y", "z">>

B58Chars == {B58Alphabet[i] : i \in 1..Len(B58Alphabet)}

\* The number of leading elements of seq equal to x.
LeadingCount(seq, x) ==
    CHOOSE k \in 0..Len(seq) :
        /\ \A i \in 1..k : seq[i] = x
        /\ k = Len(seq) \/ seq[k + 1] # x

\* The number of trailing elements of seq that belong to S.
TrailingCount(seq, S) ==
    CHOOSE k \in 0..Len(seq) :
        /\ \A i \in (Len(seq) - k + 1)..Len(seq) : seq[i] \in S
        /\ k = Len(seq) \/ seq[Len(seq) - k] \notin S

\* The number written by digits[1..i] in base b, modulo m.
RECURSIVE PrefixMod(_, _, _, _)
PrefixMod(digits, i, b, m) ==
    IF i = 0 THEN 0 ELSE (PrefixMod(digits, i - 1, b, m) * b + digits[i]) % m

\* Long division of the number written by digits in base b by m: the digits
\* of the quotient, without leading zeros.
Quotient(digits, b, m) ==
    LET q == [i \in 1..Len(digits) |->
                (PrefixMod(digits, i - 1, b, m) * b + digits[i]) \div m]
        z == LeadingCount(q, 0)
    IN  SubSeq(q, z + 1, Len(q))

\* The number written by digits in base b (no leading zeros), rewritten in
\* base m, most significant digit first: zero is the empty sequence.
RECURSIVE Rebase(_, _, _)
Rebase(digits, b, m) ==
    IF digits = <<>> THEN <<>>
    ELSE Append(Rebase(Quotient(digits, b, m), b, m),
                PrefixMod(digits, Len(digits), b, m))

\* base58.b58encode(data): a "1" for every leading zero byte, then the base-58
\* digits of the big-endian number.
B58Encode(data) ==
    LET z    == LeadingCount(data, 0)
        num  == Rebase(SubSeq(data, z + 1, Len(data)), 256, 58)
    IN  [i \in 1..z |-> "1"] \o [i \in 1..Len(num) |-> B58Alphabet[num[i] + 1]]

\* What base58.b58decode strips before it decodes: v.rstrip().
Rstrip(text) == SubSeq(text, 1, Len(text) - TrailingCount(text, {" "}))

\* The text base58.b58decode decodes.
B58Scrub(text) == Rstrip(text)

\* base58.b58decode(text): [ok |-> every character belongs to the alphabet,
\* data |-> the bytes].  Trailing whitespace is dropped first; every leading
\* "1" gives a zero byte.
B58Decode(text) ==
    LET v == B58Scrub(text)
    IN  IF \E i \in 1..Len(v) : v[i] \notin B58Chars
        THEN [ok |-> FALSE, data |-> <<>>]
        ELSE LET z   == LeadingCount(v, "1")
                 num == [i \in 1..(Len(v) - z) |-> IndexOf(B58Alphabet, v[z + i]) - 1]
             IN  [ok |-> TRUE,
                  data |-> [i \in 1..z |-> 0] \o Rebase(num, 58, 256)]

\* ------------------------------------------------------------ keys, ECDSA
\* A key pair is named by a number; the PEM text of a public key is cut down
\* to a frame around the letter that names the key.
KeyLetters == <<"A", "B", "C">>

\* key.export_key(format='PEM') of a public key.
PublicKeyPem(key) == <<"-", "K", KeyLetters[key], "-">>

\* key.export_key(format='PEM') of a private key.
PrivateKeyPem(key) == <<"-", "P", KeyLetters[key], "-">>

\* ECC.import_key(text): [ok |-> the text parses as a key, key |-> the key,
\* private |-> the text holds the private half].  Both the PEM of a public
\* key and the PEM of a private key are imported.
ImportKey(text) ==
    IF /\ Len(text) = 4
       /\ text[1] = "-" /\ text[2] \in {"K", "P"} /\ text[4] = "-"
       /\ text[3] \in Range(KeyLetters)
    THEN [ok |-> TRUE, key |-> IndexOf(KeyLetters, text[3]),
          private |-> text[2] = "P"]
    ELSE [ok |-> FALSE, key |-> 0, private |-> FALSE]

\* The part of a digest a signature binds (the stand-in digest fits in it).
DigestTail(digest) == SubSeq(digest, Len(digest) - 3, Len(digest))

\* The second signature component: it binds the key, the digest and the
\* first component r.  twin = 1 gives the other root, (r, n - s), of the same
\* signature.
SigS(key, digest, r, twin) ==
    <<2 * key + twin>> \o ToBytes(0, OrderBytes - 5)
        \o [i \in 1..4 |-> (DigestTail(digest)[i] + r[OrderBytes - 4 + i]) % 256]

\* DSS.new(private_key, 'fips-186-3').sign(h): r || s, with k the random
\* value ECDSA draws for this signature.
Sign(key, digest, k) ==
    ToBytes(k, OrderBytes) \o SigS(key, digest, ToBytes(k, OrderBytes), 0)

\* The other encoding of the same signature: ECDSA accepts (r, n - s)
\* whenever it accepts (r, s).
TwinSignature(sig) ==
    [i \in 1..Len(sig) |->
        IF i = OrderBytes + 1
        THEN (IF sig[i] % 2 = 0 THEN sig[i] + 1 ELSE sig[i] - 1)
        ELSE sig[i]]

\* DSS.new(public_key, 'fips-186-3').verify(h, signature) does not raise:
\* the signature has the right length, r is not zero, and s is one of the two
\* roots for this key, digest and r.
VerifySignature(key, digest, sig) ==
    /\ Len(sig) = 2 * OrderBytes
    /\ \E i \in 1..OrderBytes : sig[i] # 0
    /\ \E twin \in {0, 1} :
          SubSeq(sig, OrderBytes + 1, 2 * OrderBytes)
            = SigS(key, digest, SubSeq(sig, 1, OrderBytes), twin)

\* ------------------------------------------------------------ randomness
\* A random source that returns the same value at every draw.
TokenBytesRepeated(k, n) == ToBytes(1, n)

\* secrets.token_bytes(n): the k-th draw of the run, as n bytes.
TokenBytes(k, n) == ToBytes(k, n)

\* ------------------------------------------------- generate_image_commitment
\* Commitment data that leaves the content hash out.
CommitmentDataNoImage(image_bytes, timestamp, salt) ==
    ToBytes(timestamp, TimeSize) \o salt

\* Commitment data that leaves the salt out.
CommitmentDataNoSalt(image_bytes, timestamp, salt) ==
    SHA3_256(image_bytes) \o ToBytes(timestamp, TimeSize)

\* commitment_data = image_hash + timestamp.to_bytes(8, 'big') + salt
CommitmentData(image_bytes, timestamp, salt) ==
    SHA3_256(image_bytes) \o ToBytes(timestamp, TimeSize) \o salt

\* The commitment string returned for content image_bytes at clock value
\* timestamp with the drawn salt.
ImageCommitment(image_bytes, timestamp, salt) ==
    Hex(SHA3_256(CommitmentData(image_bytes, timestamp, salt)))

\* The contents that are committed to: b"", b"X", b"Y", b"XY".
Contents == {<<>>, <<88>>, <<89>>, <<88, 89>>}

\* One call of generate_image_commitment(image_bytes).
GenerateImageCommitment(image_bytes) ==
    /\ Len(commits) < MaxCommits
    /\ LET fresh == TokenBytes(drawn + 1, SaltSize)
       IN  commits' = Append(commits,
                [content |-> image_bytes,
                 ts      |-> now,
                 salt    |-> fresh,
                 value   |-> ImageCommitment(image_bytes, now, fresh)])
    /\ drawn' = drawn + 1
    /\ UNCHANGED <<now, proofVars>>

\* The clock advances.
Tick ==
    /\ now < MaxTime
    /\ now' = now + 1
    /\ UNCHANGED <<drawn, commits, proofVars>>

\* ------------------------------------------------------------ generators
\* ZKProofGenerator(atoma_model_id) after __init__: the model id, the key pair
\* and the proof metadata (proof_type and proof_version are the same for all).
ProofType    == Str(<<"zk_medical_analysis">>)
ProofVersion == Str(<<"1.0">>)

Generator(model_id, key) ==
    [atoma_model_id |-> model_id,
     key            |-> key,
     private        |-> TRUE,
     public_key     |-> key,
     proof_metadata |-> Dict(<<Item("proof_type", ProofType),
                               Item("version", ProofVersion),
                               Item("generator", Str(<<"DrSui-ZK-Proof-System">>)),
                               Item("atoma_model_id", model_id)>>)]

\* The generators of the model: one per model id, each with its own key pair
\* (as in TestSecurity.setUp).
Generators ==
    <<Generator(Str(<<"model-v1">>), 1), Generator(Str(<<"model-v2">>), 2)>>

Gens == 1..Len(Generators)

\* The values os.getenv('DRSUI_ZK_PRIVATE_KEY') may return: unset, empty, a
\* text that is no key, the PEM of a private key, the PEM of a public key.
EnvValues ==
    {None, Str(<<>>), Str(<<"tampered">>), Str(PrivateKeyPem(3)), Str(PublicKeyPem(3))}

\* _load_or_generate_key(), the variable holding env and ECC.generate
\* returning the key pair fresh: the PEM text returned.
LoadOrGenerateKey(env, fresh) ==
    IF Truthy(env) THEN env.s ELSE PrivateKeyPem(fresh)

\* A constructor that keeps the imported key only when it has a private half.
InitPrivateOnly(atoma_model_id, env, fresh) ==
    LET imported == ImportKey(LoadOrGenerateKey(env, fresh))
    IN  IF imported.ok /\ imported.private
        THEN Generator(atoma_model_id, imported.key)
        ELSE Generator(atoma_model_id, fresh)

\* ZKProofGenerator(atoma_model_id) with the environment variable holding env:
\* the imported key when the text imports, a generated key pair (fresh)
\* otherwise.  Exactly one key pair is generated on the paths that generate.
ZKProofGeneratorInit(atoma_model_id, env, fresh) ==
    LET imported == ImportKey(LoadOrGenerateKey(env, fresh))
    IN  IF imported.ok
        THEN [Generator(atoma_model_id, imported.key) EXCEPT
                 !.private = imported.private]   \* public_key: the same key
        ELSE Generator(atoma_model_id, fresh)

\* ------------------------------------------------- generate_analysis_proof
\* analysis_hash: SHA-256 (hex) of the sorted-key JSON of the response.
AnalysisHash(ai_response) ==
    Str(Hex(SHA256(EncodeUtf8(Dumps(ai_response).text))))

\* A payload that leaves proof_type, version and model_id out.
PayloadWithoutHeader(proof_type, version, image_commitment, analysis_hash, model_id, timestamp, nonce) ==
    Dict(<<Item("image_commitment", image_commitment),
           Item("analysis_hash", analysis_hash),
           Item("timestamp", timestamp),
           Item("nonce", nonce)>>)

\* The payload that is signed, from the seven values.
ProofPayload(proof_type, version, image_commitment, analysis_hash, model_id, timestamp, nonce) ==
    Dict(<<Item("proof_type", proof_type),
           Item("version", version),
           Item("image_commitment", image_commitment),
           Item("analysis_hash", analysis_hash),
           Item("model_id", model_id),
           Item("timestamp", timestamp),
           Item("nonce", nonce)>>)

\* SHA256.new(payload_json.encode('utf-8')), payload_json the dumped payload
PayloadHash(payload_json) == SHA256(EncodeUtf8(payload_json))

\* An error handler that swallows the exception and returns what there is.
Swallow(failed, proof) ==
    [ok |-> TRUE, proof |-> IF failed THEN Dict(<<>>) ELSE proof]

\* "except Exception as e: raise ValueError(...)" around the body: when a
\* step of the body failed the caller gets the exception and no proof.
Reraise(failed, proof) ==
    IF failed THEN [ok |-> FALSE, proof |-> None] ELSE [ok |-> TRUE, proof |-> proof]

\* A default that replaces every falsy timestamp ("timestamp or now").
TimestampIfTruthy(timestamp, clock) ==
    IF Truthy(timestamp) THEN timestamp ELSE PyInt(clock)

\* "if timestamp is None: timestamp = int(time.time())"
TimestampOrNow(timestamp, clock) ==
    IF timestamp = None THEN PyInt(clock) ELSE timestamp

\* generate_analysis_proof(image_commitment, ai_response, timestamp) on
\* generator gen, at clock value clock, after d values were drawn:
\* [ok |-> no exception (otherwise ValueError is raised), proof |-> the proof,
\* draws |-> the number of values drawn].  The nonce is drawn first; the k of
\* the signature is drawn when signing is reached with a private key (sign
\* raises TypeError on a key without private half).
GenerateAnalysisProof(gen, image_commitment, ai_response, timestamp, clock, d) ==
    LET ts      == TimestampOrNow(timestamp, clock)
        nonce   == Str(Hex(TokenBytes(d + 1, NonceSize)))
        ahash   == AnalysisHash(ai_response)
        payload == ProofPayload(ProofType, ProofVersion, image_commitment, ahash,
                                gen.atoma_model_id, ts, nonce)
        doc     == Dumps(payload)
        sig     == Sign(gen.key, PayloadHash(doc.text), d + 2)
        failed  == ~Dumps(ai_response).ok \/ ~doc.ok \/ ~gen.private
        out     == Reraise(failed, Dict(<<
                Item("proof_type", ProofType),
                Item("version", ProofVersion),
                Item("image_commitment", image_commitment),
                Item("analysis_hash", ahash),
                Item("model_id", gen.atoma_model_id),
                Item("timestamp", ts),
                Item("signature", Str(B58Encode(sig))),
                Item("public_key",
                     Str(B58Encode(EncodeUtf8(PublicKeyPem(gen.public_key))))),
                Item("nonce", nonce),
                Item("metadata", gen.proof_metadata)>>))
    IN  [ok |-> out.ok, proof |-> out.proof, draws |-> IF failed THEN 1 ELSE 2]

\* ------------------------------------------------------------ verify_proof
\* A rebuilt payload that forgets the nonce.
RebuiltPayloadNoNonce(proof) ==
    ProofPayload(Get(proof, "proof_type"), Get(proof, "version"),
                 Get(proof, "image_commitment"), Get(proof, "analysis_hash"),
                 Get(proof, "model_id"), Get(proof, "timestamp"), None)

\* The payload verify_proof rebuilds from the proof's own fields.
RebuiltPayload(proof) ==
    ProofPayload(Get(proof, "proof_type"), Get(proof, "version"),
                 Get(proof, "image_commitment"), Get(proof, "analysis_hash"),
                 Get(proof, "model_id"), Get(proof, "timestamp"),
                 Get(proof, "nonce"))

\* The inner try block: both fields decode from base58 and the public key
\* parses.  A field that is no str makes b58decode raise, which is caught
\* like a decoding failure.
DecodedFields(signature_b58, public_key_b58) ==
    LET sig == IF signature_b58.py = "str" THEN B58Decode(signature_b58.s)
               ELSE [ok |-> FALSE, data |-> <<>>]
        pk  == IF public_key_b58.py = "str" THEN B58Decode(public_key_b58.s)
               ELSE [ok |-> FALSE, data |-> <<>>]
        key == IF pk.ok /\ DecodableUtf8(pk.data) THEN ImportKey(DecodeUtf8(pk.data))
               ELSE [ok |-> FALSE, key |-> 0]
    IN  [ok |-> sig.ok /\ key.ok, signature |-> sig.data, key |-> key.key]

\* commitment_valid
CommitmentValid(proof, expected_commitment) ==
    IF Truthy(expected_commitment)
    THEN PyEq(Get(proof, "image_commitment"), expected_commitment)
    ELSE TRUE

\* A verifier that checks signatures under its own instance's key.
OwnKey(self, public_key) == self.key

\* The key of DSS.new(public_key, 'fips-186-3'): the key decoded from the
\* proof; nothing of the instance (self) is read.
VerifierKey(self, public_key) == public_key

\* The body of verify_proof's outer try block, run on instance self:
\* [ret |-> the value returned, exc |-> the exception that leaves the block,
\* "" when none does].
VerifyProofBody(self, proof, expected_commitment) ==
    IF ~IsDict(proof)
    THEN [ret |-> FALSE, exc |-> "AttributeError"]
    ELSE LET signature_b58  == Get(proof, "signature")
             public_key_b58 == Get(proof, "public_key")
             dec            == DecodedFields(signature_b58, public_key_b58)
             doc            == Dumps(RebuiltPayload(proof))
         IN  IF ~Truthy(signature_b58) \/ ~Truthy(public_key_b58)
             THEN [ret |-> FALSE, exc |-> ""]
             ELSE IF ~dec.ok
             THEN [ret |-> FALSE, exc |-> ""]
             ELSE IF ~doc.ok
             THEN [ret |-> FALSE, exc |-> "TypeError"]
             ELSE [ret |-> /\ VerifySignature(VerifierKey(self, dec.key),
                                              PayloadHash(doc.text), dec.signature)
                           /\ CommitmentValid(proof, expected_commitment),
                   exc |-> ""]

\* A verify_proof without the outer "except Exception": the exception leaves
\* the function.
Propagate(body) == [ret |-> FALSE, raised |-> body.exc # ""]

\* The outer "except Exception: return False".
CatchAll(body) == [ret |-> body.exc = "" /\ body.ret, raised |-> FALSE]

\* A verify_proof that also wants the proof to carry its metadata record.
VerifyProofWithMetadata(self, proof, expected_commitment) ==
    LET body == CatchAll(VerifyProofBody(self, proof, expected_commitment))
    IN  [ret |-> /\ body.ret
                 /\ "metadata" \in Keys(proof)
                 /\ IsDict(Get(proof, "metadata")),
         raised |-> FALSE]

\* self.verify_proof(proof, expected_commitment): [ret |-> the verdict,
\* raised |-> an exception reached the caller].
VerifyProof(self, proof, expected_commitment) ==
    CatchAll(VerifyProofBody(self, proof, expected_commitment))

\* ---------------------------------------------------- create_atoma_tee_proof
\* A measurement taken from the instance's key pair instead of its model id.
MeasurementOfKey(gen) ==
    Hex(SHA256(EncodeUtf8(<<KeyLetters[gen.key]>> \o <<"-enclave-v1">>)))

\* _generate_enclave_measurement()
EnclaveMeasurement(gen) ==
    Hex(SHA256(EncodeUtf8(gen.atoma_model_id.s \o <<"-enclave-v1">>)))

\* The attestation record built at clock value clock.
TeeAttestation(gen, clock) ==
    Dict(<<
      Item("tee_type", Str(<<"atoma-secure-enclave">>)),
      Item("enclave_id", Str(<<"atoma-tee-">> \o gen.atoma_model_id.s)),
      Item("attestation_version", Str(<<"1.0">>)),
      Item("enclave_measurement", Str(EnclaveMeasurement(gen))),
      Item("remote_attestation", Dict(<<
          Item("attested", PyBool(TRUE)),
          Item("attestation_timestamp", PyInt(clock)),
          Item("attestation_provider", Str(<<"atoma-tee-service">>)),
          Item("attestation_signature", Str(<<"simulated-for-development">>))>>)),
      Item("security_properties", Dict(<<
          Item("memory_encryption", PyBool(TRUE)),
          Item("code_integrity", PyBool(TRUE)),
          Item("remote_attestation", PyBool(TRUE)),
          Item("secure_boot", PyBool(TRUE))>>))>>)

\* create_atoma_tee_proof(analysis_data) on generator gen, at clock value
\* clock, after d values were drawn: [ok |-> no exception (otherwise
\* ValueError is raised), proof |-> the record, commitment |-> the value
\* generate_image_commitment returned, salt |-> the salt it drew,
\* draws |-> the number of values drawn: the salt, then those of the proof].
CreateAtomaTeeProof(gen, analysis_data, clock, d) ==
    LET doc   == Dumps(analysis_data)
        salt  == TokenBytes(d + 1, SaltSize)
        analysis_commitment == ImageCommitment(EncodeUtf8(doc.text), clock, salt)
        base  == GenerateAnalysisProof(gen, Str(analysis_commitment),
                                       analysis_data, None, clock, d + 1)
    IN  IF ~doc.ok
        THEN [ok |-> FALSE, proof |-> None, commitment |-> <<>>, salt |-> salt,
              draws |-> 0]
        ELSE IF ~base.ok
        THEN [ok |-> FALSE, proof |-> None, commitment |-> <<>>, salt |-> salt,
              draws |-> 1 + base.draws]
        ELSE [ok |-> TRUE, draws |-> 1 + base.draws,
              proof |->
                SetItem(
                  SetItem(
                    SetItem(base.proof, "tee_attestation", TeeAttestation(gen, clock)),
                    "proof_type", Str(<<"zk_medical_analysis_tee">>)),
                  "computation_environment",
                  Str(<<"trusted_execution_environment">>)),
              commitment |-> analysis_commitment,
              salt |-> salt]

\* ------------------------------------------------------- blockchain format
\* create_proof_for_blockchain(zk_proof): [ok |-> no exception (otherwise
\* ValueError is raised), data |-> the bytes].
CreateProofForBlockchain(zk_proof) ==
    LET returned(doc) ==
            [ok |-> doc.ok, data |-> IF doc.ok THEN EncodeUtf8(doc.text) ELSE <<>>]
    IN  returned(Dumps(zk_proof))

\* deserialize_proof_from_blockchain(proof_bytes): [ok |-> no exception
\* (otherwise ValueError is raised), proof |-> the value read].
DeserializeProofFromBlockchain(proof_bytes) ==
    IF ~DecodableUtf8(proof_bytes) THEN [ok |-> FALSE, proof |-> None]
    ELSE LET returned(doc) == [ok |-> doc.ok, proof |-> doc.v]
         IN  returned(Loads(DecodeUtf8(proof_bytes)))

\* ------------------------------------------- issuing, tampering, verifying
\* Nothing stored on the blockchain yet.
NoChain ==
    [stored |-> FALSE, ok |-> FALSE, proof |-> None, bytes |-> <<>>,
     read |-> FALSE, readable |-> FALSE]

\* No HTTP request answered yet.
NoResponse ==
    [status_code |-> 0, content |-> None,
     request |-> [path |-> "", n |-> 0]]

\* main.py after import where no request is made: demo mode off and no
\* Atoma client (the defaults of lines 24 and 28), nothing stored.
ApiIdle ==
    /\ DEMO_MODE = FALSE
    /\ client = FALSE
    /\ analyses_storage = <<>>
    /\ response = NoResponse

\* No verify_proof call made yet (by: the instance the call is made on).
NoVerdict ==
    [called |-> FALSE, by |-> 0, proof |-> None, expected |-> None,
     ret |-> FALSE, raised |-> FALSE]

\* Result records (test_zk_proofs.py setUp, cut down to two keys).
Records ==
    {Dict(<<Item("status", Str(<<"Normal">>)), Item("severity", Str(<<"NORMAL">>))>>),
     Dict(<<Item("status", Str(<<"Normal">>)), Item("severity", Str(<<"tampered">>))>>)}

\* The record of an analysis without findings.
OkRecord ==
    Dict(<<Item("status", Str(<<"Normal">>)), Item("severity", Str(<<"NORMAL">>))>>)

\* The same dict built with its keys inserted in the opposite order.
Reversed(d) ==
    Dict([i \in 1..Len(d.items) |-> d.items[Len(d.items) + 1 - i]])

\* Commitments handed to generate_analysis_proof: one made by
\* generate_image_commitment, and the empty string.
Commitments ==
    {Str(ImageCommitment(<<88>>, 0, TokenBytes(1, SaltSize))), Str(<<>>)}

\* Explicit timestamps: none given, or a fixed one.
Timestamps == {None, PyInt(7)}

\* A generate_analysis_proof call after which the generator holds another
\* key pair.
GenerateProofRotating(g, c, r, t) ==
    /\ Len(issued) < MaxProofs
    /\ LET returned(res) ==
               /\ issued' = Append(issued,
                    [gen |-> g, image_commitment |-> c, ai_response |-> r,
                     timestamp |-> t, ok |-> res.ok, proof |-> res.proof])
               /\ held' = res.proof
               /\ drawn' = drawn + res.draws
       IN  returned(GenerateAnalysisProof(generators[g], c, r, t, now, drawn))
    /\ verdict' = NoVerdict
    /\ generators' = [generators EXCEPT
                        ![g].key = (@ % Len(KeyLetters)) + 1,
                        ![g].public_key = (@ % Len(KeyLetters)) + 1]
    /\ UNCHANGED <<now, commits, chain, log, environ, apiVars>>

\* generator g runs generate_analysis_proof(c, r, t); the caller holds what
\* it returns.  A call that raises ValueError returns nothing.
GenerateProof(g, c, r, t) ==
    /\ Len(issued) < MaxProofs
    /\ LET returned(res) ==
               /\ issued' = Append(issued,
                    [gen |-> g, image_commitment |-> c, ai_response |-> r,
                     timestamp |-> t, ok |-> res.ok, proof |-> res.proof])
               /\ held' = res.proof
               /\ drawn' = drawn + res.draws
       IN  returned(GenerateAnalysisProof(generators[g], c, r, t, now, drawn))
    /\ verdict' = NoVerdict
    /\ UNCHANGED <<now, commits, chain, generators, log, environ, apiVars>>

\* generator g runs create_atoma_tee_proof(r); the caller holds the record it
\* returns.  The call makes one generate_image_commitment call of its own.
CreateTeeProof(g, r) ==
    /\ Len(issued) < MaxProofs
    /\ LET returned(res, doc) ==
               /\ issued' = Append(issued,
                    [gen |-> g,
                     image_commitment |->
                        IF res.ok THEN Str(res.commitment) ELSE None,
                     ai_response |-> r, timestamp |-> None,
                     ok |-> res.ok, proof |-> res.proof])
               /\ held' = res.proof
               /\ commits' = IF ~doc.ok THEN commits
                             ELSE Append(commits,
                                    [content |-> EncodeUtf8(doc.text),
                                     ts      |-> now,
                                     salt    |-> res.salt,
                                     value   |-> ImageCommitment(
                                        EncodeUtf8(doc.text), now, res.salt)])
               /\ drawn' = drawn + res.draws
       IN  returned(CreateAtomaTeeProof(generators[g], r, now, drawn), Dumps(r))
    /\ verdict' = NoVerdict
    /\ UNCHANGED <<now, chain, generators, log, environ, apiVars>>

\* create_proof_for_blockchain(held): the bytes go on the blockchain.
Store ==
    /\ ~chain.stored
    /\ issued # <<>>
    /\ ~verdict.called
    /\ LET returned(res) ==
               chain' = [stored |-> TRUE, ok |-> res.ok, proof |-> held,
                         bytes |-> res.data, read |-> FALSE, readable |-> FALSE]
       IN  returned(CreateProofForBlockchain(held))
    /\ UNCHANGED <<now, drawn, commits, issued, held, verdict, generators, log, environ, apiVars>>

\* deserialize_proof_from_blockchain(chain bytes): the caller now holds the
\* proof read back (or nothing, when ValueError is raised).
Retrieve ==
    /\ chain.stored /\ chain.ok /\ ~chain.read
    /\ ~verdict.called
    /\ LET returned(res) ==
               /\ chain' = [chain EXCEPT !.read = TRUE, !.readable = res.ok]
               /\ held' = res.proof
       IN  returned(DeserializeProofFromBlockchain(chain.bytes))
    /\ UNCHANGED <<now, drawn, commits, issued, verdict, generators, log, environ, apiVars>>

TamperedChars == <<"t", "a", "m", "p", "e", "r", "e", "d">>

\* Values a caller may put in place of a field's value (test_zk_proofs.py
\* test_tampered_proof_fails_verification and test_zk_verification.py
\* test_invalid_proof_rejection, and values of other types).
FieldValues(proof, field) ==
    LET old == Get(proof, field)
        any == {Str(TamperedChars), None, EmptyBytes}
        own == CASE field = "signature" ->
                      {Str(old.s \o <<" ">>), Str(<<"1">> \o old.s), Str(<<"0">>),
                       Str(<<>>),
                       Str(B58Encode(TwinSignature(B58Decode(old.s).data))),
                       Str(B58Encode([B58Decode(old.s).data EXCEPT
                                        ![OrderBytes] = (@ + 1) % 256]))}
                 [] field = "public_key" ->
                      {Str(B58Encode(EncodeUtf8(PublicKeyPem(3)))),
                       Str(B58Encode(<<200>>)), Str(<<"0">>), Str(<<>>)}
                 [] field = "proof_type" -> {Str(<<"zk_medical_analysis_tee">>)}
                 [] field = "model_id" -> {Str(<<"model-v1">>), Str(<<"model-v2">>)}
                 [] field = "image_commitment" ->
                      {Str(<<"wrong_commitment_hash">>), Str(<<>>)}
                 [] field = "timestamp" -> {PyInt(old.n + 1), Str(ToDecimal(old.n))}
                 [] OTHER -> {}
    IN  IF IsDict(proof) /\ field \in Keys(proof)
        THEN (any \cup own) \ {old}
        ELSE {}

\* The caller has an untouched issued proof and has not verified it yet.
Untouched ==
    /\ issued # <<>>
    /\ issued[Len(issued)].ok
    /\ held = issued[Len(issued)].proof
    /\ ~verdict.called

\* proof[field] = value
SetField(field, value) ==
    /\ Untouched
    /\ field \in Keys(held)
    /\ value \in FieldValues(held, field)
    /\ held' = SetItem(held, field, value)
    /\ UNCHANGED <<now, drawn, commits, issued, verdict, chain, generators, log, environ, apiVars>>

\* del proof[field]
DelField(field) ==
    /\ Untouched
    /\ field \in Keys(held)
    /\ held' = DelItem(held, field)
    /\ UNCHANGED <<now, drawn, commits, issued, verdict, chain, generators, log, environ, apiVars>>

\* The fields verify_proof reads from a proof: the signature, the public
\* key and the seven fields of the rebuilt payload.
ReadByVerify ==
    {"signature", "public_key", "proof_type", "version", "image_commitment",
     "analysis_hash", "model_id", "timestamp", "nonce"}

\* The other fields a holder may change, remove or add: the ones the proof
\* has (metadata; tee_attestation and computation_proof of a TEE record),
\* metadata when it was removed, and one the proof never had.
OtherFields(proof) ==
    IF IsDict(proof)
    THEN (Keys(proof) \cup {"metadata", "demo_mode"}) \ ReadByVerify
    ELSE {}

\* Values put into such a field.
OtherValues == {Str(TamperedChars), None}

\* proof[field] = value for a field verify_proof does not read (the field
\* is changed, or added when the proof has none).
SetOther(field, value) ==
    /\ ~verdict.called
    /\ IsDict(held)
    /\ field \in OtherFields(held)
    /\ value \in OtherValues
    /\ field \notin Keys(held) \/ Get(held, field) # value
    /\ held' = SetItem(held, field, value)
    /\ UNCHANGED <<now, drawn, commits, issued, verdict, chain, generators, log, environ, apiVars>>

\* del proof[field] for a field verify_proof does not read.
DelOther(field) ==
    /\ ~verdict.called
    /\ IsDict(held)
    /\ field \in Keys(held) \ ReadByVerify
    /\ held' = DelItem(held, field)
    /\ UNCHANGED <<now, drawn, commits, issued, verdict, chain, generators, log, environ, apiVars>>

\* Things that are no proofs.
NoProofs == {None, Str(TamperedChars), PyInt(0), Dict(<<>>)}

\* The caller passes something else than the proof.
Replace(x) ==
    /\ ~verdict.called
    /\ held \notin NoProofs \/ issued = <<>>
    /\ x \in NoProofs \ {held}
    /\ held' = x
    /\ UNCHANGED <<now, drawn, commits, issued, verdict, chain, generators, log, environ, apiVars>>

\* Expected commitments a caller may pass to verify_proof.
Expected ==
    Commitments \cup {None, Str(<<"wrong_commitment_hash">>)}

\* A verify_proof that remembers a failure: once a call has returned False,
\* every later call returns False.
VerifySticky(v, expected_commitment) ==
    /\ v \in DOMAIN generators
    /\ LET returned(res) ==
               verdict' = [called |-> TRUE, by |-> v, proof |-> held,
                           expected |-> expected_commitment,
                           ret |-> res.ret /\ ~(verdict.called /\ ~verdict.ret),
                           raised |-> res.raised]
       IN  returned(VerifyProof(generators[v], held, expected_commitment))
    /\ UNCHANGED <<now, drawn, commits, issued, held, chain, generators, environ, apiVars>>

\* generators[v].verify_proof(held, expected_commitment)
VerifyCall(v, expected_commitment) ==
    /\ v \in DOMAIN generators
    /\ LET returned(res) ==
               verdict' = [called |-> TRUE, by |-> v, proof |-> held,
                           expected |-> expected_commitment,
                           ret |-> res.ret, raised |-> res.raised]
       IN  returned(VerifyProof(generators[v], held, expected_commitment))
    /\ UNCHANGED <<now, drawn, commits, issued, held, chain, generators, environ, apiVars>>

\* The caller verifies what it holds, once, on instance v.
VerifyBy(v, expected_commitment) ==
    /\ ~verdict.called
    /\ VerifyCall(v, expected_commitment)
    /\ UNCHANGED <<log>>

\* The caller verifies what it holds on the first instance.
Verify(expected_commitment) == VerifyBy(1, expected_commitment)

\* The character written over character ch of a signature: the next one of
\* the base58 alphabet, or a character outside of it.
FlipChars(ch) ==
    {B58Alphabet[(IndexOf(B58Alphabet, ch) % Len(B58Alphabet)) + 1], "0"}

\* The holder of an issued proof flips character i of a copy's signature.
FlipSignature(i, ch) ==
    /\ issued # <<>>
    /\ issued[Len(issued)].ok
    /\ held = issued[Len(issued)].proof
    /\ i \in 1..Len(Get(held, "signature").s)
    /\ ch \in FlipChars(Get(held, "signature").s[i])
    /\ held' = SetItem(held, "signature",
                       Str([Get(held, "signature").s EXCEPT ![i] = ch]))
    /\ UNCHANGED <<now, drawn, commits, issued, verdict, chain, generators, log, environ, apiVars>>

\* The holder goes back to the proof as it was issued.
Restore ==
    /\ issued # <<>>
    /\ issued[Len(issued)].ok
    /\ held # issued[Len(issued)].proof
    /\ held' = issued[Len(issued)].proof
    /\ UNCHANGED <<now, drawn, commits, issued, verdict, chain, generators, log, environ, apiVars>>

\* verify_proof(held, expected_commitment) on instance v, any number of
\* times; the calls are recorded.
Reverify(v, expected_commitment) ==
    /\ Len(log) < MaxLog
    /\ VerifyCall(v, expected_commitment)
    /\ log' = Append(log, verdict')

\* The key pair of a party that is none of the backend's instances.
OutsiderKey == 3

\* A party outside the backend builds a proof the way the backend does, with
\* a key pair of its own (any process can construct a ZKProofGenerator, which
\* generates a key pair), and hands it to the verifier.
Forge(model_id, c, r) ==
    /\ ~verdict.called
    /\ held = None \/ (issued # <<>> /\ held = issued[Len(issued)].proof)
    /\ LET returned(res) ==
               /\ held' = res.proof
               /\ drawn' = drawn + res.draws
       IN  returned(GenerateAnalysisProof(Generator(model_id, OutsiderKey),
                                          c, r, None, now, drawn))
    /\ UNCHANGED <<now, commits, issued, verdict, chain, generators, log, environ, apiVars>>

\* The record of call i with d[key] = value done on the dict under its field
\* (on the record itself when field is "").
WithItem(issue, field, key, value) ==
    IF field = ""
    THEN [issue EXCEPT !.proof = SetItem(issue.proof, key, value)]
    ELSE [issue EXCEPT !.proof =
            SetItem(issue.proof, field, SetItem(Get(issue.proof, field), key, value))]

\* The caller holds the record the latest call returned.
HeldAfter(records) ==
    IF records[Len(records)].ok THEN records[Len(records)].proof ELSE held

\* The holder of record i assigns record["metadata"][key] = value.  The dict
\* under "metadata" is the generator's self.proof_metadata itself (the proof
\* is built with "metadata": self.proof_metadata, and {**base_proof, ...}
\* copies the reference): the assignment changes that one object, which the
\* generator and every record it returned refer to.
MutateMetadata(i, key, value) ==
    /\ i \in DOMAIN issued
    /\ issued[i].ok
    /\ Get(Get(issued[i].proof, "metadata"), key) # value
    /\ generators' = [generators EXCEPT ![issued[i].gen].proof_metadata =
                                           SetItem(@, key, value)]
    /\ issued' = [j \in DOMAIN issued |->
                    IF issued[j].ok /\ issued[j].gen = issued[i].gen
                    THEN WithItem(issued[j], "metadata", key, value)
                    ELSE issued[j]]
    /\ held' = HeldAfter(issued')
    /\ UNCHANGED <<now, drawn, commits, verdict, chain, log, environ, apiVars>>

\* The holder of record i assigns record["tee_attestation"][key] = value: the
\* attestation dict is built anew by every create_atoma_tee_proof call.
MutateAttestation(i, key, value) ==
    /\ i \in DOMAIN issued
    /\ issued[i].ok
    /\ "tee_attestation" \in Keys(issued[i].proof)
    /\ Get(Get(issued[i].proof, "tee_attestation"), key) # value
    /\ issued' = [issued EXCEPT ![i] = WithItem(@, "tee_attestation", key, value)]
    /\ held' = HeldAfter(issued')
    /\ UNCHANGED <<now, drawn, commits, verdict, chain, generators, log, environ, apiVars>>

\* The holder of record i assigns record[key] = value: the record is a dict
\* built anew by every call.
MutateRecord(i, key, value) ==
    /\ i \in DOMAIN issued
    /\ issued[i].ok
    /\ Get(issued[i].proof, key) # value
    /\ issued' = [issued EXCEPT ![i] = WithItem(@, "", key, value)]
    /\ held' = HeldAfter(issued')
    /\ UNCHANGED <<now, drawn, commits, verdict, chain, generators, log, environ, apiVars>>

\* A process constructs ZKProofGenerator(model_id) in the current environment;
\* ECC.generate, when it is reached, returns a key pair no instance has yet.
Construct(model_id) ==
    /\ Len(generators) < MaxGenerators
    /\ generators' = Append(generators,
            ZKProofGeneratorInit(model_id, environ, Len(generators) + 1))
    /\ UNCHANGED <<now, drawn, commits, issued, held, verdict, chain, log, environ, apiVars>>

\* A result record json.dumps cannot serialise.
BadRecord == Dict(<<Item("status", EmptyBytes)>>)

\* Well-formed documents stored on the blockchain: a record, a record with
\* a null entry, and null.
Documents ==
    {CreateProofForBlockchain(Dict(<<Item("status", Str(<<"Normal">>))>>)).data,
     CreateProofForBlockchain(Dict(<<Item("status", None)>>)).data,
     CreateProofForBlockchain(None).data}

\* Bytes written over a byte of a document: characters and literals of
\* json, and a byte that no UTF-8 text holds at that place.
DamageBytes ==
    {Ord(sym) : sym \in {"{", "}", "\"", ":", ",", " ", "1", "-", "x", "\\",
                          "null", "true", "NaN", "Infinity", "-Infinity"}}
        \cup {200}

\* The byte strings read from the blockchain: the documents, cut short at
\* any length, or with one byte overwritten.
StoredBytes ==
    UNION {{doc} \cup {SubSeq(doc, 1, k) : k \in 0..(Len(doc) - 1)}
                 \cup {[doc EXCEPT ![k] = b] : k \in 1..Len(doc), b \in DamageBytes}
           : doc \in Documents}

\* Somebody stores the bytes data on the blockchain.
Upload(data) ==
    /\ ~chain.stored
    /\ chain' = [stored |-> TRUE, ok |-> TRUE, proof |-> None,
                 bytes |-> data, read |-> FALSE, readable |-> FALSE]
    /\ UNCHANGED <<now, drawn, commits, issued, held, verdict, generators, log, environ, apiVars>>

\* ------------------------------------------------------------------ main.py
\* zk_generator, the instance main.py constructs at import: instance 1, and
\* None (HasZk is FALSE) when the constructor raised.
HasZk == generators # <<>>

\* JSONResponse(content=content, status_code=status_code)
JSONResponse(content, status_code) ==
    [status_code |-> status_code, content |-> content]

\* The number of requests answered so far (ghost).
Requests == response.request.n

\* The response resp, kept together with the request it answers (ghost).
Answer(resp, request) ==
    [status_code |-> resp.status_code, content |-> resp.content,
     request |-> request]

\* Rendering a response body raises for a value json.dumps(allow_nan=False)
\* rejects: bytes (TypeError) and the floats nan and inf (ValueError).
Renders(content) == Dumps(content).ok /\ ~HasNonFinite(content)

\* The keys /verify-proof looks for in the proof.
StructureKeys ==
    {"proof_type", "version", "image_commitment", "analysis_hash",
     "signature", "public_key"}

\* verification_details of /verify-proof
VerificationDetails(is_valid, proof, expected_commitment) ==
    Dict(<<
      Item("signature_valid", PyBool(is_valid)),
      Item("commitment_valid",
           PyBool(\/ ~Truthy(expected_commitment)
                  \/ PyEq(Get(proof, "image_commitment"), expected_commitment))),
      Item("proof_structure_valid", PyBool(StructureKeys \subseteq Keys(proof)))>>)

ErrorContent(message) ==
    Dict(<<Item("valid", PyBool(FALSE)), Item("error", Str(<<message>>))>>)

\* The /verify-proof handler on the request body
\* {"proof": proof, "expected_commitment": expected_commitment}: the
\* response.  A proof that is no dict makes proof.get raise (status 500), as
\* does a body that does not render.
VerifyProofHandler(proof, expected_commitment) ==
    IF ~Truthy(proof)
    THEN JSONResponse(ErrorContent("Proof is required in request body"), 400)
    ELSE IF ~IsDict(proof)
    THEN JSONResponse(ErrorContent("error"), 500)
    ELSE IF ~HasZk
    THEN JSONResponse(ErrorContent("ZK proof system not initialized"), 503)
    ELSE LET answered(is_valid) ==
                LET content == Dict(<<
                        Item("valid", PyBool(is_valid)),
                        Item("proof_type", Get(proof, "proof_type")),
                        Item("timestamp", Get(proof, "timestamp")),
                        Item("model_id", Get(proof, "model_id")),
                        Item("verification_details",
                             VerificationDetails(is_valid, proof,
                                                 expected_commitment))>>)
                IN  IF Renders(content) THEN JSONResponse(content, 200)
                    ELSE JSONResponse(ErrorContent("error"), 500)
         IN  answered(VerifyProof(generators[1], proof, expected_commitment).ret)

\* A client posts what it holds to /verify-proof with expected commitment
\* expected_commitment (None: the key is absent from the body).
PostVerifyProof(expected_commitment) ==
    /\ response = NoResponse
    /\ Dumps(held).ok      \* the body is JSON: it holds no bytes value
    /\ response' = Answer(VerifyProofHandler(held, expected_commitment),
                          [path |-> "/verify-proof", n |-> Requests + 1,
                           proof |-> held, expected |-> expected_commitment])
    /\ UNCHANGED <<now, drawn, commits, issued, held, verdict, chain, generators,
                   log, environ, DEMO_MODE, client, analyses_storage>>

\* ----------------------------------------------------------------- base64
B64Alphabet ==
    <<"A", "B", "C", "D", "E", "F", "G", "H", "I", "J", "K", "L", "M", "N", "O", "P",
      "Q", "R", "S", "T", "U", "V", "W", "X", "Y", "Z", "a", "b", "c", "d", "e", "f",
      "g", "h", "i", "j", "k", "l", "m", "n", "o", "p", "q", "r", "s", "t", "u", "v",
      "w", "x", "y", "z", "0", "1", "2", "3", "4", "5", "6", "7", "8", "9", "+", "/">>

\* base64.b64encode(data).decode('utf-8').  The bytes of the model include
\* the codes of words (above 255), so every byte is written as two base-64
\* digits instead of three bytes as four.
B64Encode(data) ==
    [i \in 1..(2 * Len(data)) |->
        IF i % 2 = 1 THEN B64Alphabet[(data[(i + 1) \div 2] \div 64) + 1]
        ELSE B64Alphabet[(data[i \div 2] % 64) + 1]] \o <<>>

\* base64.b64decode(text) of a text B64Encode wrote.
B64Decode(text) ==
    [i \in 1..(Len(text) \div 2) |->
        64 * (IndexOf(B64Alphabet, text[2 * i - 1]) - 1)
            + (IndexOf(B64Alphabet, text[2 * i]) - 1)] \o <<>>

\* ------------------------------------------------------------- /analyze
\* The uploads of the model: the file name (stem and extension; no name at
\* all when both are empty) and what pydicom makes of the contents: a
\* readable DICOM image ("valid"), InvalidDicomError ("invalid") or another
\* exception while the pixels are converted ("broken").
Uploads ==
    {[name |-> "chest", ext |-> ".dcm", dicom |-> "valid"],
     [name |-> "knee",  ext |-> ".DCM", dicom |-> "valid"],
     [name |-> "chest", ext |-> ".dcm", dicom |-> "invalid"],
     [name |-> "chest", ext |-> ".dcm", dicom |-> "broken"],
     [name |-> "scan",  ext |-> ".png", dicom |-> "invalid"],
     [name |-> "",      ext |-> "",     dicom |-> "valid"]}

\* file.filename and file.filename.lower().endswith('.dcm')
IsDcm(upload) == upload.ext \in {".dcm", ".DCM"}

\* The image type the demo path reads from the file name.
ImageType(upload) ==
    IF upload.name \in {"chest", "knee", "cardiac"} THEN upload.name ELSE "none"

\* generate_demo_response(image_type): the scenario is
\* int(md5((image_type or "chest") + "_demo").hexdigest(), 16) % 4, which is
\* 3 for "chest" and for no image type and 1 for "knee" and "cardiac".  The
\* record is cut down to two keys.
GenerateDemoResponse(image_type) ==
    IF image_type \in {"knee", "cardiac"}
    THEN Dict(<<Item("status", Str(<<"Abnormal - Findings Detected">>)),
                Item("severity", Str(<<"MEDIUM">>))>>)
    ELSE Dict(<<Item("status", Str(<<"Post-Operative">>)),
                Item("severity", Str(<<"MEDIUM">>))>>)

\* What the Atoma call of a request comes to: client.chat.create raises; the
\* response has no choices; the content is no JSON; the content is the JSON
\* null; a record with status Unreadable; a record; a record holding NaN.
AtomaOutcomes ==
    {"raises", "no_choices", "garbage", "null", "unreadable", "record", "nan"}

\* parse_json_response(content) for the outcomes that have parseable content.
AtomaResult(atoma) ==
    CASE atoma = "null"       -> None
      [] atoma = "unreadable" ->
            Dict(<<Item("status", Str(<<"Unreadable">>)),
                   Item("severity", Str(<<"NORMAL">>))>>)
      [] atoma = "nan"        ->
            Dict(<<Item("status", Str(<<"Normal">>)),
                   Item("severity", PyFloat("NaN"))>>)
      [] OTHER                ->
            Dict(<<Item("status", Str(<<"Normal">>)),
                   Item("severity", Str(<<"NORMAL">>))>>)

\* check_hallucination(result) raises ValueError: the status is UNREADABLE in
\* any case.  (The records of the model have no possible findings, so the
\* function returns them unchanged otherwise.)
Unreadable(result) ==
    /\ IsDict(result)
    /\ Get(result, "status").py = "str"
    /\ Get(result, "status").s \in {<<"Unreadable">>, <<"UNREADABLE">>}

\* result['hash'] = hashlib.sha256(json.dumps(result, sort_keys=True).encode()).hexdigest()
WithHash(result) ==
    SetItem(result, "hash", Str(Hex(SHA256(EncodeUtf8(Dumps(result).text)))))

\* The five assignments that add the ZK proof data to the result (and the
\* demo_mode flag on the demo path).
WithZkData(result, image_commitment, zk_proof, tee_proof, proof_bytes, timestamp, demo) ==
    LET plain ==
            SetItem(SetItem(SetItem(SetItem(SetItem(result,
                "image_commitment", image_commitment),
                "zk_proof", zk_proof),
                "tee_attestation", Get(tee_proof, "tee_attestation")),
                "blockchain_proof_bytes", Str(B64Encode(proof_bytes))),
                "zk_timestamp", timestamp)
    IN  IF demo THEN SetItem(plain, "demo_mode", PyBool(TRUE)) ELSE plain

\* A ZK step that adds each piece of proof data as soon as it is made.
ZkEager(result, image_commitment, zk, tee, chained, timestamp, demo) ==
    IF zk.ok /\ tee.ok /\ chained.ok
    THEN WithZkData(result, image_commitment, zk.proof, tee.proof, chained.data,
                    timestamp, demo)
    ELSE SetItem(result, "image_commitment", image_commitment)

\* The try block "if zk_generator and image_commitment" of both paths, given
\* what the three calls come to: the result is changed after all three
\* calls have returned, and left as it is when one of them raised.
ZkGuarded(result, image_commitment, zk, tee, chained, timestamp, demo) ==
    IF zk.ok /\ tee.ok /\ chained.ok
    THEN WithZkData(result, image_commitment, zk.proof, tee.proof, chained.data,
                    timestamp, demo)
    ELSE result

\* The ZK step of both paths at clock value clock after d draws:
\* [result |-> the result after it, draws |-> the number of values drawn].
\* create_atoma_tee_proof is reached only when generate_analysis_proof
\* returned.
ZkStep(result, image_commitment, demo, clock, d) ==
    IF ~HasZk \/ ~Truthy(image_commitment)
    THEN [result |-> result, draws |-> 0]
    ELSE LET made(zk) ==
                LET attested(tee) ==
                        [result |-> ZkGuarded(result, image_commitment, zk, tee,
                                        CreateProofForBlockchain(zk.proof),
                                        PyInt(clock), demo),
                         draws  |-> zk.draws + IF zk.ok THEN tee.draws ELSE 0]
                IN  attested(IF zk.ok
                             THEN CreateAtomaTeeProof(generators[1], result, clock,
                                                      d + zk.draws)
                             ELSE [ok |-> FALSE, proof |-> None, draws |-> 0])
         IN  made(GenerateAnalysisProof(generators[1], image_commitment, result,
                                        PyInt(clock), clock, d))

\* A store that drops the record it has just appended (pop() for pop(0)).
StoredDropNewest(storage, upload, result, clock) ==
    IF Len(storage) >= StorageCap THEN storage
    ELSE Append(storage,
            [id |-> Len(storage) + 1, timestamp |-> clock,
             patient_id |-> "anonymous", file_name |-> upload.name \o upload.ext,
             result |-> result,
             arrival |-> IF storage = <<>> THEN 1
                         ELSE storage[Len(storage)].arrival + 1])

\* An analysis record is appended and, above StorageCap records, the oldest
\* is dropped.  arrival (ghost) numbers the records in the order stored.
Stored(storage, upload, result, clock) ==
    LET analysis_record ==
            [id         |-> Len(storage) + 1,
             timestamp  |-> clock,
             patient_id |-> "anonymous",
             file_name  |-> IF upload.name = "" /\ upload.ext = ""
                            THEN "unknown.dcm" ELSE upload.name \o upload.ext,
             result     |-> result,
             arrival    |-> IF storage = <<>> THEN 1
                            ELSE storage[Len(storage)].arrival + 1]
        appended == Append(storage, analysis_record)
    IN  IF Len(appended) > StorageCap THEN Tail(appended) ELSE appended

\* What a path of the handler comes to: the response, the storage after it
\* and the number of values drawn.
Outcome(resp, storage, draws) ==
    [response |-> resp, storage |-> storage, draws |-> draws]

ErrorBody(message) ==
    Dict(<<Item("status", Str(<<"error">>)), Item("message", Str(<<message>>))>>)

\* The end of both paths: the record is stored and the result returned;
\* a result that does not render raises in JSONResponse after the record
\* was stored (ValueError for NaN, answered with status 500).
StoreAndReturn(step, storage, upload, clock, d) ==
    Outcome(IF Renders(step.result) THEN JSONResponse(step.result, 200)
            ELSE JSONResponse(ErrorBody("Failed to parse AI response"), 500),
            Stored(storage, upload, step.result, clock),
            d + step.draws)

\* The demo path (lines 652-749) with d values drawn by the request so far.
DemoPath(upload, image_commitment, storage, clock, d) ==
    StoreAndReturn(
        ZkStep(WithHash(GenerateDemoResponse(ImageType(upload))), image_commitment,
               TRUE, clock, drawn + d),
        storage, upload, clock, d)

\* An Atoma path that answers a failed Atoma call with an error instead of
\* falling back to the demo path.
AtomaPathNoFallback(upload, atoma, image_commitment, storage, clock, d) ==
    CASE atoma \in {"raises", "no_choices", "null", "garbage"} ->
            Outcome(JSONResponse(ErrorBody("error"), 500), storage, d)
      [] atoma = "unreadable" ->
            Outcome(JSONResponse(ErrorBody("UNREADABLE"), 400), storage, d)
      [] OTHER ->
            StoreAndReturn(
                ZkStep(WithHash(AtomaResult(atoma)), image_commitment, FALSE,
                       clock, drawn + d),
                storage, upload, clock, d)

\* The Atoma path (lines 479-649) for the outcome atoma of the Atoma call.
\* Every exception but ValueError leads to the demo path: the ones raised
\* by the call, the one raised for a response without choices, and the
\* TypeError of result['hash'] = ... on a result that is no dict.
AtomaPath(upload, atoma, image_commitment, storage, clock, d) ==
    CASE atoma \in {"raises", "no_choices", "null"} ->
            DemoPath(upload, image_commitment, storage, clock, d)
      [] atoma = "garbage" ->
            Outcome(JSONResponse(ErrorBody("Failed to parse AI response"), 500),
                    storage, d)
      [] atoma = "unreadable" ->
            Outcome(JSONResponse(ErrorBody("UNREADABLE"), 400), storage, d)
      [] OTHER ->
            StoreAndReturn(
                ZkStep(WithHash(AtomaResult(atoma)), image_commitment, FALSE,
                       clock, drawn + d),
                storage, upload, clock, d)

\* analyze_image(file) for the upload, the Atoma call coming to atoma: the
\* commitment to the contents is made first (one draw) when there is a
\* zk_generator.
AnalyzeImage(upload, atoma) ==
    LET d == IF HasZk THEN 1 ELSE 0
        image_commitment ==
            IF HasZk
            THEN Str(ImageCommitment(<<88>>, now, TokenBytes(drawn + 1, SaltSize)))
            ELSE None
    IN  IF ~IsDcm(upload)
        THEN Outcome(JSONResponse(ErrorBody("Only DICOM files are supported"), 400),
                     analyses_storage, d)
        ELSE IF upload.dicom = "invalid"
        THEN Outcome(JSONResponse(ErrorBody("Invalid DICOM file"), 400),
                     analyses_storage, d)
        ELSE IF upload.dicom = "broken"
        THEN Outcome(JSONResponse(ErrorBody("error"), 500), analyses_storage, d)
        ELSE IF DEMO_MODE \/ ~client
        THEN DemoPath(upload, image_commitment, analyses_storage, now, d)
        ELSE AtomaPath(upload, atoma, image_commitment, analyses_storage, now, d)

\* A client posts the upload to /analyze.
PostAnalyze(upload, atoma) ==
    /\ LET answered(res) ==
               /\ response' = Answer(res.response,
                                [path |-> "/analyze", n |-> Requests + 1,
                                 upload |-> upload, atoma |-> atoma])
               /\ analyses_storage' = res.storage
               /\ drawn' = drawn + res.draws
       IN  answered(AnalyzeImage(upload, atoma))
    /\ UNCHANGED <<now, commits, issued, held, verdict, chain, generators, log,
                   environ, DEMO_MODE, client>>

\* ------------------------------------------------------------- /analyses
\* analyses_storage[-limit:]
LastSlice(seq, limit) ==
    IF limit > 0
    THEN SubSeq(seq, IF limit >= Len(seq) THEN 1 ELSE Len(seq) - limit + 1, Len(seq))
    ELSE SubSeq(seq, 1 - limit, Len(seq))

\* list(reversed(seq))
ReversedList(seq) == [i \in 1..Len(seq) |-> seq[Len(seq) + 1 - i]] \o <<>>

\* get_analyses(limit): the response.  Rendering the body raises (status
\* 500) when a stored result holds NaN.
GetAnalysesHandler(limit) ==
    LET recent == IF Len(analyses_storage) > limit
                  THEN LastSlice(analyses_storage, limit)
                  ELSE analyses_storage
    IN  IF \E i \in DOMAIN recent : ~Renders(recent[i].result)
        THEN JSONResponse(ErrorBody("Internal Server Error"), 500)
        ELSE JSONResponse([total    |-> Len(analyses_storage),
                           returned |-> Len(recent),
                           analyses |-> ReversedList(recent)], 200)

\* A client gets /analyses?limit=limit.
GetAnalyses(limit) ==
    /\ response' = Answer(GetAnalysesHandler(limit),
                          [path |-> "/analyses", n |-> Requests + 1,
                           limit |-> limit])
    /\ UNCHANGED <<now, drawn, commits, issued, held, verdict, chain, generators,
                   log, environ, DEMO_MODE, client, analyses_storage>>

\* --------------------------------------------------------- specifications
InitCommit ==
    /\ now \in 0..MaxTime
    /\ drawn = 0
    /\ commits = <<>>
    /\ issued = <<>>
    /\ held = None
    /\ verdict = NoVerdict
    /\ chain = NoChain
    /\ generators = Generators
    /\ log = <<>>
    /\ environ = None
    /\ ApiIdle

NextCommit ==
    \/ Tick
    \/ \E b \in Contents : GenerateImageCommitment(b)

SpecCommit == InitCommit /\ [][NextCommit]_vars

ProofFields ==
    {"proof_type", "version", "image_commitment", "analysis_hash", "model_id",
     "timestamp", "signature", "public_key", "nonce", "metadata"}

\* One proof is issued, possibly altered by its holder, and verified.
InitProof == InitCommit

NextProof ==
    \/ \E g \in Gens, c \in Commitments, r \in Records, t \in Timestamps :
            issued = <<>> /\ GenerateProof(g, c, r, t)
    \/ \E f \in ProofFields : \E v \in FieldValues(held, f) : SetField(f, v)
    \/ \E f \in ProofFields : DelField(f)
    \/ \E x \in NoProofs : Replace(x)
    \/ \E w \in Expected : Verify(w)

SpecProof == InitProof /\ [][NextProof]_vars

\* Calls of generate_analysis_proof that differ in generator (model id and
\* key), commitment and timestamp, on records in either key order.
InitHash == InitCommit

NextHash ==
    \/ \E r \in Records, c \in Commitments :
            GenerateProof(1, c, r, None)
    \/ \E r \in Records, t \in Timestamps :
            GenerateProof(2, Str(<<"wrong_commitment_hash">>), Reversed(r), t)

SpecHash == InitHash /\ [][NextHash]_vars

\* A plain or TEE-wrapped proof is issued, stored on the blockchain, read
\* back and verified.
InitCodec == InitCommit

NextCodec ==
    \/ \E g \in Gens, c \in Commitments, r \in Records, t \in Timestamps :
            issued = <<>> /\ GenerateProof(g, c, r, t)
    \/ \E g \in Gens, r \in Records : issued = <<>> /\ CreateTeeProof(g, r)
    \/ Store
    \/ Retrieve
    \/ \E w \in Expected \cup {issued[i].image_commitment : i \in 1..Len(issued)} :
            Verify(w)

SpecCodec == InitCodec /\ [][NextCodec]_vars

\* A proof is issued; its holder verifies it, flips a character of the
\* signature, verifies, restores the proof and verifies again, in any order.
InitReverify == InitCommit

NextReverify ==
    \/ \E c \in Commitments, r \in Records :
            issued = <<>> /\ GenerateProof(1, c, r, None)
    \/ /\ issued # <<>>
       /\ held = issued[Len(issued)].proof
       /\ \E i \in {Len(Get(held, "signature").s)} :
            \E ch \in FlipChars(Get(held, "signature").s[i]) : FlipSignature(i, ch)
    \/ Restore
    \/ issued # <<>> /\ Reverify(1, issued[Len(issued)].image_commitment)

SpecReverify == InitReverify /\ [][NextReverify]_vars

\* A proof is issued by one instance, possibly altered, and verified on
\* either instance (the instances hold different key pairs and model ids).
InitParty == InitCommit

NextParty ==
    \/ \E g \in Gens, c \in Commitments :
            issued = <<>> /\ GenerateProof(g, c, CHOOSE r \in Records : TRUE, None)
    \/ \E f \in {"public_key", "model_id"} :
            \E x \in FieldValues(held, f) : SetField(f, x)
    \/ \E v \in Gens : \E w \in {None} \cup {issued[i].image_commitment : i \in 1..Len(issued)} :
            VerifyBy(v, w)

SpecParty == InitParty /\ [][NextParty]_vars

\* The backend issues a proof; an outsider builds one of its own for the same
\* or another record; the backend verifies what it is handed.
InitForge == InitCommit

NextForge ==
    \/ \E g \in Gens, c \in Commitments, r \in Records :
            issued = <<>> /\ GenerateProof(g, c, r, None)
    \/ \E g \in Gens, c \in Commitments, r \in Records :
            Forge(generators[g].atoma_model_id, c, r)
    \/ \E w \in Expected : Verify(w)

SpecForge == InitForge /\ [][NextForge]_vars

\* Callers of the two instances get proofs and attestation records and
\* assign to parts of the records they hold.
InitShare == InitCommit

NextShare ==
    \/ \E g \in Gens, c \in Commitments :
            Truthy(c) /\ GenerateProof(g, c, CHOOSE r \in Records : TRUE, None)
    \/ \E g \in Gens : CreateTeeProof(g, CHOOSE r \in Records : TRUE)
    \/ \E i \in DOMAIN issued : MutateMetadata(i, "generator", Str(<<"tampered">>))
    \/ \E i \in DOMAIN issued : MutateAttestation(i, "tee_type", Str(<<"tampered">>))
    \/ \E i \in DOMAIN issued : MutateRecord(i, "nonce", Str(<<"tampered">>))

SpecShare == InitShare /\ [][NextShare]_vars

\* A generator is constructed in an environment that holds any of the values
\* of DRSUI_ZK_PRIVATE_KEY, then commits, issues, attests and verifies.
InitKey ==
    /\ now = 0
    /\ drawn = 0
    /\ commits = <<>>
    /\ issued = <<>>
    /\ held = None
    /\ verdict = NoVerdict
    /\ chain = NoChain
    /\ generators = <<>>
    /\ log = <<>>
    /\ environ \in EnvValues
    /\ ApiIdle

NextKey ==
    \/ Construct(Str(<<"model-v1">>))
    \/ \E g \in DOMAIN generators : \E r \in {CHOOSE x \in Records : TRUE, BadRecord} :
            GenerateProof(g, CHOOSE c \in Commitments : Truthy(c), r, None)
    \/ \E g \in DOMAIN generators : CreateTeeProof(g, CHOOSE r \in Records : TRUE)
    \/ GenerateImageCommitment(<<88>>)
    \/ \E g \in DOMAIN generators :
            \E w \in {None} \cup {issued[i].image_commitment : i \in 1..Len(issued)} :
                VerifyBy(g, w)

SpecKey == InitKey /\ [][NextKey]_vars

\* Bytes, well-formed or not, are stored on the blockchain and read back with
\* deserialize_proof_from_blockchain.
InitBytes == InitCommit

NextBytes ==
    \/ \E data \in StoredBytes : Upload(data)
    \/ Retrieve

SpecBytes == InitBytes /\ [][NextBytes]_vars

\* Instances of two models, two of them of the same model with key pairs of
\* their own, make create_atoma_tee_proof calls at different times on
\* different records.
TeeGenerators ==
    <<Generator(Str(<<"model-v1">>), 1), Generator(Str(<<"model-v1">>), 2),
      Generator(Str(<<"model-v2">>), 3)>>

InitTee ==
    /\ now = 0
    /\ drawn = 0
    /\ commits = <<>>
    /\ issued = <<>>
    /\ held = None
    /\ verdict = NoVerdict
    /\ chain = NoChain
    /\ generators = TeeGenerators
    /\ log = <<>>
    /\ environ = None
    /\ ApiIdle

NextTee ==
    \/ Tick
    \/ \E g \in DOMAIN generators, r \in Records \cup {BadRecord} :
            CreateTeeProof(g, r)

SpecTee == InitTee /\ [][NextTee]_vars

\* A proof is issued; its holder, who may have altered it, posts it to
\* /verify-proof.
InitVerifyApi == InitCommit

NextVerifyApi ==
    \/ \E c \in Commitments, t \in Timestamps :
            issued = <<>> /\ GenerateProof(1, c, CHOOSE r \in Records : TRUE, t)
    \/ \E f \in ProofFields : \E v \in FieldValues(held, f) :
            response = NoResponse /\ SetField(f, v)
    \/ \E f \in ProofFields : response = NoResponse /\ DelField(f)
    \/ \E x \in NoProofs : response = NoResponse /\ Replace(x)
    \/ \E w \in Expected : PostVerifyProof(w)

SpecVerifyApi == InitVerifyApi /\ [][NextVerifyApi]_vars

\* The instances issue proofs for the same or different arguments, with the
\* timestamp left out, zero or positive.
IssueTimestamps == {None, PyInt(0), PyInt(7)}

InitIssue == InitCommit

NextIssue ==
    \E g \in Gens, c \in Commitments, r \in Records, t \in IssueTimestamps :
        GenerateProof(g, c, r, t)

SpecIssue == InitIssue /\ [][NextIssue]_vars

\* main.py is imported in an environment without key or with the PEM of a
\* public key in DRSUI_ZK_PRIVATE_KEY, or the constructor raised (no
\* zk_generator); demo mode is on or off and a client is configured or not.
\* Clients post uploads to /analyze.
InitAnalyze ==
    /\ now = 1
    /\ drawn = 0
    /\ commits = <<>>
    /\ issued = <<>>
    /\ held = None
    /\ verdict = NoVerdict
    /\ chain = NoChain
    /\ environ \in {None, Str(PublicKeyPem(3))}
    /\ generators \in {<<>>, <<ZKProofGeneratorInit(Str(<<"model-v1">>), environ, 1)>>}
    /\ log = <<>>
    /\ DEMO_MODE \in BOOLEAN
    /\ client \in BOOLEAN
    /\ analyses_storage = <<>>
    /\ response = NoResponse

NextAnalyze ==
    \E upload \in Uploads, atoma \in AtomaOutcomes :
        Requests < MaxUploads /\ PostAnalyze(upload, atoma)

SpecAnalyze == InitAnalyze /\ [][NextAnalyze]_vars

\* A plain or TEE-wrapped proof is issued; its holder may damage the
\* signature or remove the public key, changes, removes and adds fields
\* verify_proof does not read (MaxChanges of them at a time), and verifies.
OtherChanged ==
    IF issued = <<>> \/ ~IsDict(held) THEN {}
    ELSE {f \in OtherFields(held) \cup OtherFields(issued[1].proof) :
            \/ ~(f \in Keys(held) <=> f \in Keys(issued[1].proof))
            \/ Get(held, f) # Get(issued[1].proof, f)}

InitMeta == InitCommit /\ now = 1

NextMeta ==
    \/ \E g \in Gens, c \in Commitments :
            issued = <<>> /\ GenerateProof(g, c, OkRecord, None)
    \/ issued = <<>> /\ CreateTeeProof(1, OkRecord)
    \/ /\ issued # <<>>
       /\ ~verdict.called
       /\ held = issued[Len(issued)].proof
       /\ \E i \in {Len(Get(held, "signature").s)} :
            \E ch \in FlipChars(Get(held, "signature").s[i]) : FlipSignature(i, ch)
    \/ DelField("public_key")
    \/ \E f \in OtherFields(held) : \E v \in OtherValues :
            (Cardinality(OtherChanged \cup {f}) <= MaxChanges) /\ SetOther(f, v)
    \/ \E f \in OtherFields(held) :
            (Cardinality(OtherChanged \cup {f}) <= MaxChanges) /\ DelOther(f)
    \/ \E w \in Expected : Verify(w)

SpecMeta == InitMeta /\ [][NextMeta]_vars

\* Requests that get past the storage limit, and one more.
MaxRequests == StorageCap + 2

\* The backend runs with an Atoma client that answers or raises; clients post
\* readable uploads to /analyze and ask /analyses for any number of records.
Limits == {-1, 0, 1, 2, 50}

InitStore ==
    /\ now = 1
    /\ drawn = 0
    /\ commits = <<>>
    /\ issued = <<>>
    /\ held = None
    /\ verdict = NoVerdict
    /\ chain = NoChain
    /\ environ = None
    /\ generators = <<ZKProofGeneratorInit(Str(<<"model-v1">>), environ, 1)>>
    /\ log = <<>>
    /\ DEMO_MODE = FALSE
    /\ client = TRUE
    /\ analyses_storage = <<>>
    /\ response = NoResponse

NextStore ==
    \/ \E upload \in {u \in Uploads : u.dicom = "valid"}, atoma \in {"raises", "record"} :
            Requests < MaxRequests /\ PostAnalyze(upload, atoma)
    \/ \E limit \in Limits :
            Requests < MaxRequests /\ GetAnalyses(limit)

SpecStore == InitStore /\ [][NextStore]_vars

\* ------------------------------------------------------------------ claims
\* The latest generate_analysis_proof call.
LastIssue == issued[Len(issued)]

\* verify_proof was called on a proof that generate_analysis_proof returned.
VerifiedIssued ==
    /\ verdict.called
    /\ issued # <<>>
    /\ LastIssue.ok

\* p is the dict q with the value of field f, and nothing else, replaced by a
\* different value.
OneFieldReplaced(p, q, f) ==
    /\ IsDict(p)
    /\ Keys(p) = Keys(q)
    /\ f \in Keys(q)
    /\ ~PyEq(Get(p, f), Get(q, f))
    /\ \A g \in Keys(q) \ {f} : Get(p, g) = Get(q, g)

PayloadFields ==
    {"proof_type", "version", "image_commitment", "analysis_hash", "model_id",
     "timestamp", "nonce"}

\* C1: the proof returned by generate_analysis_proof(c, r), with or without an
\* explicit timestamp, makes verify_proof(proof, c) return True.
C1_IssuedProofVerifies ==
    (/\ VerifiedIssued
     /\ verdict.proof = LastIssue.proof
     /\ verdict.expected = LastIssue.image_commitment)
        => (verdict.ret /\ ~verdict.raised)

\* An issued proof without explicit timestamp, on a commitment made by
\* generate_image_commitment, was verified against that commitment.
C1_Witness ==
    /\ VerifiedIssued
    /\ verdict.proof = LastIssue.proof
    /\ verdict.expected = LastIssue.image_commitment
    /\ Len(LastIssue.image_commitment.s) = 64
    /\ LastIssue.timestamp = None
    /\ verdict.ret

\* C2 (as claimed): replacing the value of exactly one of signature,
\* image_commitment, analysis_hash, timestamp, nonce of an issued proof by a
\* different value makes verify_proof(mutated, c) return False.
C2_SingleFieldMutationRejected ==
    \A f \in {"signature", "image_commitment", "analysis_hash", "timestamp", "nonce"} :
        (/\ VerifiedIssued
         /\ OneFieldReplaced(verdict.proof, LastIssue.proof, f)
         /\ verdict.expected = LastIssue.image_commitment)
            => ~verdict.ret

\* C3: the signature covers proof_type, version and model_id: changing one of
\* them in an issued proof, everything else untouched, makes verify_proof
\* return False (whatever expected commitment is passed).
C3_HeaderFieldMutationRejected ==
    \A f \in {"proof_type", "version", "model_id"} :
        (VerifiedIssued /\ OneFieldReplaced(verdict.proof, LastIssue.proof, f))
            => ~verdict.ret

\* The model id of an issued proof was changed to another generator's model
\* id and the proof verified against its own commitment.
C3_Witness ==
    /\ VerifiedIssued
    /\ OneFieldReplaced(verdict.proof, LastIssue.proof, "model_id")
    /\ Get(verdict.proof, "model_id") \in
            {Generators[g].atoma_model_id : g \in Gens}
    /\ verdict.expected = LastIssue.image_commitment
    /\ ~verdict.ret

\* C4 (as claimed): verify_proof(p, w) returns False for every supplied
\* expected commitment w different from p's image_commitment, the empty
\* string included.
C4_WrongExpectedCommitmentRejected ==
    (/\ verdict.called
     /\ IsDict(verdict.proof)
     /\ verdict.expected # None
     /\ ~PyEq(verdict.expected, Get(verdict.proof, "image_commitment")))
        => ~verdict.ret

\* Inputs on which verify_proof has nothing to accept: no dict, signature or
\* public key missing or empty or not decodable, a payload field that json
\* cannot serialise.
Malformed(p) ==
    \/ ~IsDict(p)
    \/ ~Truthy(Get(p, "signature"))
    \/ ~Truthy(Get(p, "public_key"))
    \/ ~DecodedFields(Get(p, "signature"), Get(p, "public_key")).ok
    \/ \E f \in PayloadFields : Get(p, f).py = "bytes"

\* C5: verify_proof never raises, and returns False on every malformed input.
C5_VerifyProofIsTotal ==
    verdict.called
        => (/\ ~verdict.raised
            /\ (Malformed(verdict.proof) => ~verdict.ret))

\* verify_proof was called on something that is no dict (proof.get raises
\* inside) and returned False.
C5_Witness ==
    /\ verdict.called
    /\ ~IsDict(verdict.proof)
    /\ ~verdict.ret
    /\ ~verdict.raised

\* The proof in the caller's hands went through create_proof_for_blockchain
\* and deserialize_proof_from_blockchain.
RoundTripped ==
    /\ issued # <<>>
    /\ LastIssue.ok
    /\ chain.read
    /\ chain.proof = LastIssue.proof

\* Field-for-field equality of two records (values compared as Python's ==).
SameFields(p, q) ==
    /\ IsDict(p) /\ IsDict(q)
    /\ Keys(p) = Keys(q)
    /\ \A f \in Keys(q) : PyEq(Get(p, f), Get(q, f))

\* C6 (as claimed): for every issued proof, plain or TEE-wrapped, the proof
\* read back from its blockchain bytes is field-for-field equal to it and
\* passes verify_proof against the same expected commitment.
C6_RoundTripEqualAndStillVerifies ==
    RoundTripped =>
        /\ chain.readable
        /\ SameFields(held, LastIssue.proof)
        /\ (verdict.called /\ verdict.proof = held
                /\ verdict.expected = LastIssue.image_commitment)
              => verdict.ret

LowerHex == {HexDigits[i] : i \in 1..16}

\* C7: every commitment returned by generate_image_commitment, for any content
\* (the empty byte string included), is a string of exactly 64 characters, each
\* a lowercase hexadecimal digit.
C7_CommitmentIs64LowerHex ==
    \A i \in 1..Len(commits) :
        /\ Len(commits[i].value) = 2 * DigestSize
        /\ Len(commits[i].value) = 64
        /\ \A j \in 1..Len(commits[i].value) : commits[i].value[j] \in LowerHex

\* A commitment to the empty content and one to a non-empty content were issued,
\* and one of them shows a digit above nine.
C7_Witness ==
    /\ \E i \in 1..Len(commits) : commits[i].content = <<>>
    /\ \E i \in 1..Len(commits) : commits[i].content # <<>>
    /\ \E i \in 1..Len(commits) : \E j \in 1..64 :
            commits[i].value[j] \in {"a", "b", "c", "d", "e", "f"}

\* C8: commitments of different contents differ: for any two calls on different
\* contents, and also when the other content is committed with the very same
\* clock value and salt (the hash being collision-free on these inputs).
C8_DifferentContentDifferentCommitment ==
    /\ \A i, j \in 1..Len(commits) :
            commits[i].content # commits[j].content
                => commits[i].value # commits[j].value
    /\ \A i \in 1..Len(commits) : \A b \in Contents :
            b # commits[i].content
                => ImageCommitment(b, commits[i].ts, commits[i].salt) # commits[i].value

\* Two calls on different contents were made at the same clock value.
C8_Witness ==
    \E i, j \in 1..Len(commits) :
        /\ commits[i].content # commits[j].content
        /\ commits[i].ts = commits[j].ts

OneCharFlipped(p, q) ==
    /\ IsDict(p) /\ IsDict(q)
    /\ OneFieldReplaced(p, q, "signature")
    /\ Get(p, "signature").py = "str"
    /\ Len(Get(p, "signature").s) = Len(Get(q, "signature").s)
    /\ Cardinality({i \in 1..Len(Get(q, "signature").s) :
                        Get(p, "signature").s[i] # Get(q, "signature").s[i]}) = 1

\* C11: verification is stateless and deterministic.  Two verify_proof calls
\* with the same arguments return the same verdict, whatever was verified in
\* between; and a call on the restored original proof (with the commitment it
\* was issued for) that follows a failed call on a copy with one signature
\* character flipped returns True.
C11_VerificationStateless ==
    /\ \A i \in DOMAIN log : \A j \in DOMAIN log :
          (log[i].proof = log[j].proof /\ log[i].expected = log[j].expected)
              => (log[i].ret = log[j].ret /\ log[i].raised = log[j].raised)
    /\ \A i \in DOMAIN log : \A j \in DOMAIN log :
          (/\ i < j
           /\ OneCharFlipped(log[i].proof, LastIssue.proof)
           /\ ~log[i].ret
           /\ log[j].proof = LastIssue.proof
           /\ log[j].expected = LastIssue.image_commitment)
              => log[j].ret

\* The original verified, a flipped copy rejected, and the restored original
\* verified again.
C11_Witness ==
    /\ Len(log) = 3
    /\ log[1].proof = LastIssue.proof /\ log[1].ret
    /\ OneCharFlipped(log[2].proof, LastIssue.proof) /\ ~log[2].ret
    /\ log[3].proof = LastIssue.proof /\ log[3].ret
    /\ Truthy(log[3].expected)

\* ---------------------------------------------------------------------- C12
\* The signature of p is valid over p's own payload fields under the public
\* key p embeds.
SignatureValid(p) ==
    /\ IsDict(p)
    /\ DecodedFields(Get(p, "signature"), Get(p, "public_key")).ok
    /\ Dumps(RebuiltPayload(p)).ok
    /\ VerifySignature(
          DecodedFields(Get(p, "signature"), Get(p, "public_key")).key,
          PayloadHash(Dumps(RebuiltPayload(p)).text),
          DecodedFields(Get(p, "signature"), Get(p, "public_key")).signature)

\* C12: without an expected commitment (None) verify_proof returns True
\* exactly when the signature is valid over the proof's own payload fields
\* under the embedded key; with one supplied, exactly when the signature is
\* valid and the supplied string equals the proof's image_commitment.
C12_CommitmentCheckedWhenSupplied ==
    verdict.called =>
        IF verdict.expected = None
        THEN verdict.ret = SignatureValid(verdict.proof)
        ELSE verdict.ret =
                (/\ SignatureValid(verdict.proof)
                 /\ Get(verdict.proof, "image_commitment") = verdict.expected)

\* ---------------------------------------------------------------------- C13
\* C13: the verdict of verify_proof does not depend on the instance it runs
\* on.  Every instance returns the verdict that the verifying instance
\* returned for the same arguments, and an issued proof is accepted, with no
\* expected commitment or with its own, on every instance, also on one that
\* holds another key pair and model id than the issuer.
C13_ThirdPartyVerifiable ==
    verdict.called =>
        /\ \A v \in DOMAIN generators :
              VerifyProof(generators[v], verdict.proof, verdict.expected)
                = [ret |-> verdict.ret, raised |-> verdict.raised]
        /\ (/\ issued # <<>>
            /\ verdict.proof = LastIssue.proof
            /\ verdict.expected \in {None, LastIssue.image_commitment})
              => verdict.ret

\* A proof issued by one instance was accepted on an instance that holds a
\* different key pair.
C13_Witness ==
    /\ verdict.called
    /\ issued # <<>>
    /\ verdict.proof = LastIssue.proof
    /\ verdict.by # LastIssue.gen
    /\ generators[verdict.by].key # generators[LastIssue.gen].key
    /\ verdict.ret

\* ---------------------------------------------------------------------- C14
\* The private key of one of the backend's instances made the signature of
\* proof p: the key p is verified under is the public half of that key.
SignedByBackend(p) ==
    /\ IsDict(p)
    /\ \E g \in DOMAIN generators :
          /\ generators[g].private
          /\ DecodedFields(Get(p, "signature"), Get(p, "public_key")).ok
          /\ DecodedFields(Get(p, "signature"), Get(p, "public_key")).key
                = generators[g].key

\* C14: proofs cannot be forged without the private key.  Whenever
\* verify_proof accepts a proof, the proof was signed with the private key of
\* one of the backend's generators.
C14_AcceptedProofsSignedByBackend ==
    (verdict.called /\ verdict.ret) => SignedByBackend(verdict.proof)

\* ---------------------------------------------------------------------- C15
\* The latest record issued is one create_atoma_tee_proof returned.
IsTee(issue) == issue.ok /\ "tee_attestation" \in Keys(issue.proof)

\* C15: the record create_atoma_tee_proof returns has the integrity guarantee
\* of a plain proof.  verify_proof on the returned record, with the record's
\* own image_commitment as expected commitment, returns True; and it returns
\* False on a copy of the record with one payload field changed.
C15_TeeRecordVerifies ==
    (verdict.called /\ issued # <<>> /\ IsTee(LastIssue)) =>
        /\ (/\ verdict.proof = LastIssue.proof
            /\ verdict.expected = LastIssue.image_commitment) => verdict.ret
        /\ (\E f \in PayloadFields : OneFieldReplaced(verdict.proof, LastIssue.proof, f))
              => ~verdict.ret

\* ---------------------------------------------------------------------- C16
\* C16: records share no mutable state.  A step in which the holder of one
\* returned record changes that record (no call is made: the same records
\* exist before and after) changes no other returned record and leaves the
\* state of every generator as it was.
C16_RecordsShareNoState ==
    [][\A i \in DOMAIN issued :
          (Len(issued') = Len(issued) /\ issued'[i] # issued[i]) =>
              /\ \A j \in DOMAIN issued \ {i} : issued'[j] = issued[j]
              /\ generators' = generators]_vars

\* ---------------------------------------------------------------------- C17
\* The key import of the configured value (nothing imports when the variable
\* is unset).
Configured ==
    IF environ.py = "str" THEN ImportKey(environ.s)
    ELSE [ok |-> FALSE, key |-> 0, private |-> FALSE]

\* C17: key loading never fails construction.  A generator constructed with
\* an importable configured key uses that key; one constructed with no
\* configured value, or one that does not import, uses a freshly generated
\* key pair; and every constructed generator holds a usable private key and
\* the public key that matches it.
C17_ConstructionYieldsUsableKey ==
    \A g \in DOMAIN generators :
        /\ (Truthy(environ) /\ Configured.ok) => generators[g].key = Configured.key
        /\ (~Truthy(environ) \/ ~Configured.ok) => generators[g].key = g
        /\ generators[g].private
        /\ generators[g].public_key = generators[g].key

\* ---------------------------------------------------------------------- C18
\* A step leaves the key pair of every generator as it was.
KeyFixed ==
    \A g \in DOMAIN generators :
        /\ generators'[g].key = generators[g].key
        /\ generators'[g].private = generators[g].private
        /\ generators'[g].public_key = generators[g].public_key

\* Every proof issued embeds the public half of its generator's private key.
EmbedsOwnKey ==
    \A i \in DOMAIN issued :
        issued[i].ok =>
            Get(issued[i].proof, "public_key")
              = Str(B58Encode(EncodeUtf8(PublicKeyPem(generators[issued[i].gen].key))))

\* C18: the key pair is fixed for the lifetime of a generator.  No commit,
\* issue, verify or attest call changes a generator's key pair, and every
\* proof a generator issued embeds the same public_key value, the public half
\* of that generator's private key.
C18_KeyPairFixed == [](EmbedsOwnKey) /\ [][KeyFixed]_vars

\* One generator has attested and issued, a commitment was generated and a
\* proof verified.
C18_Witness ==
    /\ Len(issued) = 2
    /\ issued[1].gen = issued[2].gen
    /\ IsTee(issued[1])
    /\ issued[2].ok /\ ~IsTee(issued[2])
    /\ Len(commits) = 2
    /\ verdict.called /\ verdict.ret

\* ---------------------------------------------------------------------- C19
\* The text is one JSON document: the grammar of JSON is that of json.loads
\* without the constants NaN, Infinity and -Infinity.
ValidJson(text) == Loads(text).ok /\ ~HasNonFinite(Loads(text).v)

\* The bytes are malformed: not valid UTF-8, or not a valid JSON document.
MalformedBytes(data) ==
    ~DecodableUtf8(data) \/ ~ValidJson(DecodeUtf8(data))

\* C19: deserialize_proof_from_blockchain fails with an error and returns no
\* record on every malformed byte input.
C19_MalformedBytesRejected ==
    (chain.read /\ MalformedBytes(chain.bytes)) => (~chain.readable /\ held = None)

\* ---------------------------------------------------------------------- C20
\* Entry e of the log is a generate_analysis_proof call made by the caller
\* (create_atoma_tee_proof logs no commitment when it fails).
PlainIssue(e) ==
    IF e.ok THEN ~IsTee(e) ELSE e.image_commitment # None

\* C20: generate_analysis_proof fails, with the error going to the caller,
\* whenever the record cannot be encoded or signing fails.  Such a call
\* returns no proof and leaves every generator's state as it was; and a call
\* that returns a proof returns a complete one whose signature is valid.
C20_IssueErrorsPropagate ==
    /\ [](\A i \in DOMAIN issued :
            PlainIssue(issued[i]) =>
              /\ (~Dumps(issued[i].ai_response).ok \/ ~generators[issued[i].gen].private)
                    => (~issued[i].ok /\ issued[i].proof = None)
              /\ issued[i].ok =>
                    (/\ Keys(issued[i].proof) = ProofFields
                     /\ SignatureValid(issued[i].proof)))
    /\ [][(Len(issued') > Len(issued) /\ ~issued'[Len(issued')].ok)
              => generators' = generators]_vars

\* A call on a record that cannot be encoded failed, and a later call of the
\* same generator on a good record returned a proof.
C20_Witness ==
    /\ Len(issued) = 2
    /\ PlainIssue(issued[1])
    /\ ~Dumps(issued[1].ai_response).ok
    /\ ~issued[1].ok /\ issued[1].proof = None
    /\ issued[2].gen = issued[1].gen
    /\ issued[2].ok /\ held = issued[2].proof

\* ------------------------------------------------------------------- C21
\* The attestation records issued so far.
TeeIssues == {i \in DOMAIN issued : IsTee(issued[i])}

Attestation(i) == Get(issued[i].proof, "tee_attestation")

ModelOf(i) == generators[issued[i].gen].atoma_model_id

VerifyProofAnswered ==
    response.request.path = "/verify-proof" /\ response.status_code = 200

\* C22: the /verify-proof response carries the verdict of verify_proof and a
\* breakdown in which signature_valid is true exactly when the signature
\* verifies under the embedded key (whatever the commitment check gives),
\* commitment_valid is true exactly when no expected commitment was supplied
\* or it equals the proof's commitment, and proof_structure_valid is true
\* exactly when the fields the endpoint requires are present.
C22_BreakdownReportsEachCheck ==
    VerifyProofAnswered =>
        LET p == response.request.proof
            e == response.request.expected
            d == Get(response.content, "verification_details")
        IN  /\ Get(response.content, "valid")
                  = PyBool(VerifyProof(generators[1], p, e).ret)
            /\ Get(d, "signature_valid") = PyBool(SignatureValid(p))
            /\ Get(d, "commitment_valid")
                  = PyBool(e = None \/ PyEq(Get(p, "image_commitment"), e))
            /\ Get(d, "proof_structure_valid")
                  = PyBool(StructureKeys \subseteq Keys(p))

\* ------------------------------------------------------------------- C23
\* The ten fields of a proof.
AllProofFields ==
    PayloadFields \cup {"signature", "public_key", "metadata"}

\* C23: every proof returned by generate_analysis_proof(c, r, t) has the ten
\* fields, with image_commitment = c, the generator's model id, proof_type
\* "zk_medical_analysis", version "1.0" and timestamp = t whenever t is given
\* (zero included); the signature is valid over the values in the proof
\* under the generator's key, which the proof embeds.
C23_ProofCarriesWhatWasSigned ==
    \A i \in DOMAIN issued :
        issued[i].ok =>
            LET p == issued[i].proof
            IN  /\ Keys(p) = AllProofFields
                /\ Get(p, "image_commitment") = issued[i].image_commitment
                /\ Get(p, "model_id") = generators[issued[i].gen].atoma_model_id
                /\ Get(p, "proof_type") = Str(<<"zk_medical_analysis">>)
                /\ Get(p, "version") = Str(<<"1.0">>)
                /\ issued[i].timestamp # None
                        => Get(p, "timestamp") = issued[i].timestamp
                /\ issued[i].timestamp = None
                        => Get(p, "timestamp") \in {PyInt(n) : n \in 0..MaxTime}
                /\ SignatureValid(p)
                /\ Get(p, "public_key") = Str(B58Encode(EncodeUtf8(
                        PublicKeyPem(generators[issued[i].gen].public_key))))

\* A proof was issued with timestamp 0 while the clock showed another value.
C23_Witness ==
    \E i \in DOMAIN issued :
        /\ issued[i].ok
        /\ issued[i].timestamp = PyInt(0)
        /\ now # 0
        /\ Get(issued[i].proof, "timestamp") = PyInt(0)

\* ------------------------------------------------------------------- C24
\* Calls i and j of generate_analysis_proof had the same arguments.
SameArguments(i, j) ==
    /\ issued[i].image_commitment = issued[j].image_commitment
    /\ issued[i].ai_response = issued[j].ai_response
    /\ issued[i].timestamp = issued[j].timestamp

\* C24: two generate_analysis_proof calls with the same commitment, result
\* record and timestamp return proofs with different nonces and so with
\* different signed payloads, and each of the two proofs passes
\* verify_proof, without and with its commitment expected.
C24_EachProofUnique ==
    \A i, j \in DOMAIN issued :
        (i # j /\ issued[i].ok /\ issued[j].ok /\ SameArguments(i, j)) =>
            /\ Get(issued[i].proof, "nonce") # Get(issued[j].proof, "nonce")
            /\ Dumps(RebuiltPayload(issued[i].proof)).text
                    # Dumps(RebuiltPayload(issued[j].proof)).text
            /\ \A k \in {i, j} :
                  /\ VerifyProof(generators[1], issued[k].proof, None).ret
                  /\ VerifyProof(generators[1], issued[k].proof,
                                 issued[k].image_commitment).ret

\* One instance issued two proofs for the same arguments within the same
\* second: the payloads differ in the nonce only.
C24_Witness ==
    \E i, j \in DOMAIN issued :
        /\ i < j
        /\ issued[i].ok /\ issued[j].ok
        /\ SameArguments(i, j)
        /\ issued[i].gen = issued[j].gen
        /\ \A f \in PayloadFields \ {"nonce"} :
                Get(issued[i].proof, f) = Get(issued[j].proof, f)
        /\ Get(issued[i].proof, "nonce") # Get(issued[j].proof, "nonce")

\* ------------------------------------------------------------------- C25
\* The number of records stored so far (0 before the first).
Arrivals ==
    IF analyses_storage = <<>> THEN 0
    ELSE analyses_storage[Len(analyses_storage)].arrival

\* The newest-first bound on the store and the arrival numbering.
StorageBounded ==
    /\ Len(analyses_storage) <= StorageCap
    /\ Len(analyses_storage)
          = IF Arrivals < StorageCap THEN Arrivals ELSE StorageCap
    /\ \A i \in DOMAIN analyses_storage :
          analyses_storage[i].arrival = Arrivals - (Len(analyses_storage) - i)

\* The records a successful /analyze keeps of the ones stored before it:
\* all of them, or all but the oldest when the store is full.
KeptOnStore ==
    IF Len(analyses_storage) < StorageCap THEN analyses_storage
    ELSE Tail(analyses_storage)

\* A step of the store: a request that /analyze answers with 200 appends
\* its record (the file it was sent and the result it returned) after the
\* kept ones; no other request changes the store.
StorageStep ==
    IF response'.request.path = "/analyze" /\ response'.status_code = 200
    THEN /\ Len(analyses_storage') = Len(KeptOnStore) + 1
         /\ SubSeq(analyses_storage', 1, Len(KeptOnStore)) = KeptOnStore
         /\ analyses_storage'[Len(analyses_storage')].file_name
               = response'.request.upload.name \o response'.request.upload.ext
         /\ analyses_storage'[Len(analyses_storage')].result = response'.content
    ELSE analyses_storage' = analyses_storage

\* C25: analyses_storage never holds more than StorageCap records (100 in
\* main.py), and it holds the most recently stored ones in the order of
\* their arrival: every stored record goes to the end, and the oldest one
\* is dropped once the limit is exceeded.
C25_StorageKeepsLatestInOrder ==
    []StorageBounded /\ [][StorageStep]_vars

\* More records were stored than are kept: the oldest ones are gone.
C25_Witness ==
    /\ Len(analyses_storage) = StorageCap
    /\ Arrivals > StorageCap
    /\ analyses_storage[1].arrival = Arrivals - StorageCap + 1

\* ------------------------------------------------------------------- C26
\* /analyses has answered the latest request with a list of records.
AnalysesAnswered ==
    response.request.path = "/analyses" /\ response.status_code = 200

\* The L most recently stored records, most recent first.
LatestFirst(L) ==
    [i \in 1..(IF L < Len(analyses_storage) THEN L ELSE Len(analyses_storage)) |->
        analyses_storage[Len(analyses_storage) + 1 - i]] \o <<>>

\* C26: GET /analyses with limit L >= 0 returns at most L records, the L most
\* recently stored ones with the most recent first, `returned` being the
\* number of records in the response and `total` the number stored.
C26_AnalysesReturnsLatest ==
    (AnalysesAnswered /\ response.request.limit >= 0) =>
        /\ Len(response.content.analyses) <= response.request.limit
        /\ response.content.analyses = LatestFirst(response.request.limit)
        /\ response.content.returned = Len(response.content.analyses)
        /\ response.content.total = Len(analyses_storage)

\* ------------------------------------------------------------------- C29
\* C29: no two records held in analyses_storage have the same id.
C29_StoredIdsDistinct ==
    \A i, j \in DOMAIN analyses_storage :
        i # j => analyses_storage[i].id # analyses_storage[j].id

\* ------------------------------------------------------------------- C27
\* The content is a demo result for the upload: a record with every entry of
\* generate_demo_response for the image type of its file name.
IsDemoResult(content, upload) ==
    /\ IsDict(content)
    /\ \A key \in Keys(GenerateDemoResponse(ImageType(upload))) :
          /\ key \in Keys(content)
          /\ Get(content, key) = Get(GenerateDemoResponse(ImageType(upload)), key)

\* The step is a request to /analyze.
AnalyzeRequested ==
    /\ response'.request.n = Requests + 1
    /\ response'.request.path = "/analyze"

\* The Atoma call of the request raised an exception.
AtomaCallFailed ==
    /\ IsDcm(response'.request.upload)
    /\ response'.request.upload.dicom = "valid"
    /\ client /\ ~DEMO_MODE
    /\ response'.request.atoma \in {"raises", "no_choices"}

\* What C27 says of one request.
FallbackStep ==
    AnalyzeRequested =>
        /\ AtomaCallFailed =>
              /\ response'.status_code = 200
              /\ IsDemoResult(response'.content, response'.request.upload)
              /\ Len(analyses_storage') = Len(KeptOnStore) + 1
              /\ SubSeq(analyses_storage', 1, Len(KeptOnStore)) = KeptOnStore
              /\ analyses_storage'[Len(analyses_storage')].result = response'.content
        /\ ~IsDcm(response'.request.upload) =>
              /\ response'.status_code = 400
              /\ analyses_storage' = analyses_storage

ZkKeys ==
    {"image_commitment", "zk_proof", "tee_attestation", "blockchain_proof_bytes",
     "zk_timestamp"}

\* The request gets as far as an analysis result that can be returned: a
\* readable DICOM upload on the demo path, or on the Atoma path with a
\* record for an answer or with a failure that falls back to the demo path.
AnalysisMade ==
    /\ AnalyzeRequested
    /\ IsDcm(response'.request.upload)
    /\ response'.request.upload.dicom = "valid"
    /\ \/ DEMO_MODE \/ ~client
       \/ response'.request.atoma \in {"raises", "no_choices", "null", "record"}

\* A step of the ZK proof data fails: there is no generator, hence no
\* commitment, or the generator's key cannot sign.
ZkFails == ~HasZk \/ ~generators[1].private

\* The proof data of a result that carries all five entries agree.
ZkDataAgree(content) ==
    /\ Get(Get(content, "zk_proof"), "image_commitment")
          = Get(content, "image_commitment")
    /\ DeserializeProofFromBlockchain(
            B64Decode(Get(content, "blockchain_proof_bytes").s)).ok
    /\ PyEq(DeserializeProofFromBlockchain(
                B64Decode(Get(content, "blockchain_proof_bytes").s)).proof,
            Get(content, "zk_proof"))

\* What C28 says of one request.
ZkAllOrNothingStep ==
    AnalysisMade =>
        /\ response'.status_code = 200
        /\ IsDict(response'.content)
        /\ IF ZkFails
           THEN Keys(response'.content) \cap ZkKeys = {}
           ELSE /\ ZkKeys \subseteq Keys(response'.content)
                /\ ZkDataAgree(response'.content)

\* C28: the ZK proof data of an /analyze response is all or nothing and
\* never fails the analysis.  When the commitment, the proof, the TEE
\* attestation or the blockchain encoding cannot be made, the result is
\* returned with status 200 and none of image_commitment, zk_proof,
\* tee_attestation, blockchain_proof_bytes, zk_timestamp; otherwise it has
\* all five, zk_proof.image_commitment is the returned image_commitment and
\* blockchain_proof_bytes decodes to the returned zk_proof.
C28_ZkDataAllOrNothing == [][ZkAllOrNothingStep]_vars

\* The commitment was made and issuing the proof failed (the key has no
\* private half): the analysis is returned without any proof data.
C28_Witness ==
    /\ HasZk
    /\ ~generators[1].private
    /\ response.request.path = "/analyze"
    /\ response.status_code = 200
    /\ Keys(response.content) \cap ZkKeys = {}
    /\ "hash" \in Keys(response.content)

\* An analysis was returned with all five entries of proof data.
ZkDataReturned ==
    /\ response.request.path = "/analyze"
    /\ response.status_code = 200
    /\ ZkKeys \subseteq Keys(response.content)

\* ------------------------------------------------------------------- C30
\* Both proofs have the same fields among those verify_proof reads, with the
\* same values.
SameSignedPart(p, q) ==
    /\ IsDict(p) /\ IsDict(q)
    /\ \A f \in ReadByVerify :
          /\ f \in Keys(p) <=> f \in Keys(q)
          /\ Get(p, f) = Get(q, f)

\* A step that changes, adds or removes fields outside the signed payload,
\* the signature and the public key leaves every verdict as it was.
OtherFieldsStep ==
    (held' # held /\ SameSignedPart(held, held')) =>
        \A v \in DOMAIN generators : \A w \in Expected :
            VerifyProof(generators[v], held', w) = VerifyProof(generators[v], held, w)

\* C30: fields outside the signed payload do not affect verification: for
\* every proof p and commitment c, changing, adding or removing metadata or
\* any other field that is none of the seven payload fields, signature and
\* public_key leaves the verdict of verify_proof(p, c) unchanged.
C30_OtherFieldsDoNotAffectVerdict == [][OtherFieldsStep]_vars

\* The holder has removed the metadata of an issued proof and added a field
\* of its own, and the proof still verifies against its commitment.
C30_Witness ==
    /\ issued # <<>>
    /\ verdict.called /\ verdict.ret
    /\ Truthy(verdict.expected)
    /\ verdict.proof = held
    /\ SameSignedPart(held, issued[1].proof)
    /\ "metadata" \notin Keys(held)
    /\ "demo_mode" \in Keys(held)

====
